---- MODULE Spec2Model ----
(***************************************************************************)
(* A model of the scroll-driven 3D presentation: the CharacterController   *)
(* (constant-rate chase of targetProgress, speed-derived idle/walk         *)
(* decision), the UiController (progress, next-scene overlay), and the     *)
(* Experience chapter lifecycle (applyCurrentScene, goToNextScene, the     *)
(* fire-and-forget environment loads of each chapter).                     *)
(*                                                                         *)
(* Numbers.  The code computes in floating point; the model computes the   *)
(* same expressions exactly, in fixed point:                               *)
(*   progress   p  is held as  p * ProgressScale   (1 = 90000 units)       *)
(*   time       dt is held as  dt * TimeScale      (1 s = 6000 units)      *)
(*   position   z  is held as  z * ZScale          (1 world unit = 3000)   *)
(* With startZ = 0, endZ = -30 and smoothSpeed = 2 every expression of     *)
(* updatePosition is an integer in these units (maxStep = delta units),    *)
(* and 0.0001, 0.98 and 1/60 s are whole numbers of units.  A speed is a   *)
(* fraction in lowest terms, <<numerator, denominator>>, in world units    *)
(* per second.  The scales divide one another (ProgressScale / TimeScale =  *)
(* 15, ProgressScale / ZScale = 30, TimeScale / ZScale = 2), and the        *)
(* quotients are taken first so that no product leaves 32 bits.            *)
(***************************************************************************)
EXTENDS Integers, Sequences, FiniteSets, TLC

VARIABLES
    \* CharacterController
    targetProgress,     \* this.targetProgress
    currentProgress,    \* this.currentProgress
    lastZ,              \* this.lastZ
    currentSpeed,       \* this.currentSpeed, a fraction <<num, den>>
    object3D,           \* which object this.object3D is: "placeholder" | "model"
    posZ,               \* this.object3D.position.z
    visible,            \* this.object3D.visible
    mixer,              \* this.mixer # null
    idleAction,         \* this.idleAction # null
    walkAction,         \* this.walkAction # null
    currentAction,      \* this.currentAction: "none" | "idle" | "walk"
    charLoad,           \* position of loadCharacterAndAnimations
    \* UiController
    uiScene,            \* index of this.currentScene in SCENES (0: null)
    lastProgress,       \* this.lastProgress
    overlayActive,      \* the overlay carries class "active" (not "hidden")
    panelVisible,       \* textPanel.style.display # 'none'
    visibleCount,       \* how many lines of the text panel carry class "visible"
    \* FinalChoiceController
    finalActive,        \* this.isActive
    \* Experience
    currentSceneIndex,  \* this.currentSceneIndex, 1-based here
    sceneProgress,      \* this.sceneProgress
    world,              \* the environment handles, the scene's environment
                        \* objects, scene.background and the lightning timers
    envLoad,            \* position of each chapter's asynchronous setup
    \* the positions array of the rain, for the first RainSample drops
    \* (<<>>: no array yet)
    rainX,              \* positions[i3 + 0]
    rainY,              \* positions[i3 + 1], the heights
    rainZ,              \* positions[i3 + 2]
    lightningIntensity, \* gidisLightningLight.intensity, a fraction
    lightningPosition,  \* gidisLightningLight.position
    gidisLightningDuration, \* this.gidisLightningDuration
    \* CameraController
    cameraPosition,     \* this.camera.position
    cameraLookAt,       \* the point of the last this.camera.lookAt (<<>>: none)
    currentPosition,    \* this.currentPosition
    currentLookAt,      \* this.currentLookAt
    smoothFactor,       \* this.smoothFactor, in twentieths
    offset,             \* this.offset
    cameraAspect,       \* this.camera.aspect, a fraction
    rendered,           \* what the last renderer.render drew (<<>>: nothing)
    \* IEEE values the integers above cannot hold
    progressNaN,        \* currentProgress, lastZ and position.z are NaN
    \* the page and the construction of the two DOM controllers
    document,           \* ids of the elements getElementById finds
    constructed,        \* which controllers' constructors have completed
    listeners,          \* the event listeners registered so far
    fields,             \* the fields the constructors' bodies have assigned
    thrown,             \* the Error a constructor has thrown ("none": none)
    \* the updates run since setTargetProgress was called on the controller
    \* directly (counted by the constant-rate chase only)
    chaseTicks,
    \* the frame loop of the Experience
    isRunning,          \* this.isRunning
    scheduled,          \* callbacks requested for the next animation frame
    firing,             \* callbacks of the current animation frame not yet run
    ranInFrame,         \* update bodies run in the current animation frame
    \* the most recent handler run: which one (its log line), its argument
    \* (the scroll progress, the frame's delta; 0 for the others) and the
    \* animation calls it made
    lastOp,
    lastArg,
    fadeLog

charVars == <<targetProgress, currentProgress, lastZ, currentSpeed, object3D,
              posZ, visible, mixer, idleAction, walkAction, currentAction,
              charLoad>>
uiVars == <<uiScene, lastProgress, overlayActive, panelVisible, visibleCount>>
expVars == <<currentSceneIndex, sceneProgress, world, envLoad>>
effectVars == <<rainX, rainY, rainZ, lightningIntensity, lightningPosition,
                gidisLightningDuration>>
cameraVars == <<cameraPosition, cameraLookAt, currentPosition, currentLookAt,
                smoothFactor, offset, cameraAspect, rendered>>
domVars == <<document, constructed, listeners, fields, thrown>>
\* what the handlers of the character, the UI and the chapters leave alone
loopVars == <<isRunning, scheduled, firing, ranInFrame>>
restVars == <<cameraVars, progressNaN, domVars, chaseTicks, loopVars>>
vars == <<charVars, uiVars, finalActive, expVars, lastOp, lastArg, fadeLog,
          effectVars, restVars>>

----------------------------------------------------------------------------
(* Units *)

ProgressScale == 9 * 10000
TimeScale == 6 * 1000
ZScale == 3 * 1000

\* How many times a coordinate can be multiplied by a twentieth and stay whole
FollowDepth == 3

\* Units of a world coordinate of the camera, the rain and the lightning; a
\* multiple of ZScale
WorldScale == 3 * 20 ^ FollowDepth

----------------------------------------------------------------------------
(* Arithmetic of the code *)

Abs(x) == IF x < 0 THEN -x ELSE x

Sign(x) == IF x > 0 THEN 1 ELSE IF x < 0 THEN -1 ELSE 0

Min(a, b) == IF a < b THEN a ELSE b

Max(a, b) == IF a > b THEN a ELSE b

\* THREE.MathUtils.clamp(value, min, max) = Math.max(min, Math.min(max, value))
Clamp(value, lo, hi) == Max(lo, Min(hi, value))

RECURSIVE GCD(_, _)
GCD(a, b) == IF b = 0 THEN a ELSE GCD(b, a % b)

\* The quotient num / den (den > 0, num >= 0) in lowest terms.
Frac(num, den) == LET g == GCD(num, den) IN <<num \div g, den \div g>>

\* a > b for fractions with positive denominators
FracGT(a, b) == a[1] * b[2] > b[1] * a[2]

----------------------------------------------------------------------------
(* CharacterController: movement parameters *)

startZ == 0

endZ == -30

smoothSpeed == 2

\* idleThreshold = 0.01, as a fraction
idleThreshold == <<1, 100>>

\* The 0.0001 of updatePosition: closer than this, currentProgress is left alone.
SnapEpsilon == ProgressScale \div 10000

\* setTargetProgress(progress): the value it stores
ClampProgress(progress) == Clamp(progress, 0, ProgressScale)

\* maxStep taken as progress per second, without the division by the path
\* length
MaxStep_IgnoresPathLength(delta) ==
    smoothSpeed * delta * (ProgressScale \div TimeScale)

\* maxStep = (smoothSpeed * delta) / Math.abs(endZ - startZ)
MaxStep(delta) ==
    (smoothSpeed * delta * (ProgressScale \div TimeScale))
        \div Abs(endZ - startZ)

\* updatePosition leaving currentProgress alone from a hundred times as far
NextProgress_StopsShort(delta) ==
    LET progressDiff == targetProgress - currentProgress
        maxStep == MaxStep(delta)
    IN  IF Abs(progressDiff) > 100 * SnapEpsilon
        THEN ClampProgress(currentProgress
                 + Sign(progressDiff) * Min(Abs(progressDiff), maxStep))
        ELSE currentProgress

\* updatePosition assigning the target at once
NextProgress_JumpsToTarget(delta) ==
    LET progressDiff == targetProgress - currentProgress
    IN  IF Abs(progressDiff) > SnapEpsilon
        THEN ClampProgress(currentProgress + progressDiff)
        ELSE currentProgress

\* updatePosition stepping by maxStep whatever the distance left
NextProgress_AlwaysMaxStep(delta) ==
    LET progressDiff == targetProgress - currentProgress
    IN  IF Abs(progressDiff) > SnapEpsilon
        THEN ClampProgress(currentProgress + Sign(progressDiff) * MaxStep(delta))
        ELSE currentProgress

\* The new currentProgress of updatePosition(delta)
NextProgress(delta) ==
    LET progressDiff == targetProgress - currentProgress
        maxStep == MaxStep(delta)
    IN  IF Abs(progressDiff) > SnapEpsilon
        THEN ClampProgress(currentProgress
                 + Sign(progressDiff) * Min(Abs(progressDiff), maxStep))
        ELSE currentProgress

\* THREE.MathUtils.lerp(startZ, endZ, progress), in position units
ZOfProgress(progress) ==
    startZ * ZScale + ((endZ - startZ) * progress) \div (ProgressScale \div ZScale)

\* Math.abs(z - lastZ) / delta, in world units per second
SpeedOf(z, last, delta) ==
    Frac(Abs(z - last) * (TimeScale \div ZScale), delta)

\* isMoving of updateAnimation
IsMoving(speed) == FracGT(speed, idleThreshold)

\* updateAnimation never going back to idle
FadeTarget_NoIdleBranch(speed) ==
    IF IsMoving(speed) /\ walkAction /\ currentAction # "walk" THEN "walk"
    ELSE "none"

\* updateAnimation fading to the decided clip although it is already playing
FadeTarget_NoCurrentCheck(speed) ==
    IF IsMoving(speed) /\ walkAction THEN "walk"
    ELSE IF ~IsMoving(speed) /\ idleAction THEN "idle"
    ELSE "none"

\* updateAnimation: the clip it fades to ("none": no fadeToAction call)
FadeTarget(speed) ==
    IF IsMoving(speed) /\ walkAction /\ currentAction # "walk" THEN "walk"
    ELSE IF ~IsMoving(speed) /\ idleAction /\ currentAction # "idle" THEN "idle"
    ELSE "none"

\* fadeToAction(action): the calls it makes, out: the clip faded out,
\* in: the clip reset, faded in and played
FadeCalls(action) ==
    IF action = "none" THEN [out |-> "none", in |-> "none"]
    ELSE [out |-> IF currentAction # "none" /\ currentAction # action
                  THEN currentAction ELSE "none",
          in |-> action]

NoFade == [out |-> "none", in |-> "none"]

\* update(delta) deciding the clip before it moves the character, from the
\* speed of the update before
CharacterStep_DecidesBeforeMoving(delta) ==
    LET p == NextProgress(delta)
        z == ZOfProgress(p)
        to == FadeTarget(currentSpeed)
    IN  /\ currentProgress' = p
        /\ currentSpeed' = SpeedOf(z, lastZ, delta)
        /\ lastZ' = z
        /\ posZ' = z
        /\ fadeLog' = FadeCalls(to)
        /\ currentAction' = IF to = "none" THEN currentAction ELSE to
        /\ lastOp' = "update"
        /\ lastArg' = delta
        /\ UNCHANGED <<targetProgress, object3D, visible, mixer, idleAction,
                       walkAction, charLoad>>

\* update(delta) returning before updatePosition while there is no mixer
CharacterStep_NeedsMixer(delta) ==
    LET p == IF mixer THEN NextProgress(delta) ELSE currentProgress
        z == IF mixer THEN ZOfProgress(p) ELSE posZ
        speed == IF mixer THEN SpeedOf(z, lastZ, delta) ELSE currentSpeed
        to == IF mixer THEN FadeTarget(speed) ELSE "none"
    IN  /\ currentProgress' = p
        /\ currentSpeed' = speed
        /\ lastZ' = IF mixer THEN z ELSE lastZ
        /\ posZ' = z
        /\ fadeLog' = FadeCalls(to)
        /\ currentAction' = IF to = "none" THEN currentAction ELSE to
        /\ lastOp' = "update"
        /\ lastArg' = delta
        /\ UNCHANGED <<targetProgress, object3D, visible, mixer, idleAction,
                       walkAction, charLoad>>

\* update(delta): updatePosition, updateAnimation (mixer.update only advances
\* the clips' playback time, which the model does not hold)
CharacterStep(delta) ==
    LET p == NextProgress(delta)
        z == ZOfProgress(p)
        speed == SpeedOf(z, lastZ, delta)
        to == FadeTarget(speed)
    IN  /\ currentProgress' = p
        /\ currentSpeed' = speed
        /\ lastZ' = z
        /\ posZ' = z
        /\ fadeLog' = FadeCalls(to)
        /\ currentAction' = IF to = "none" THEN currentAction ELSE to
        /\ lastOp' = "update"
        /\ lastArg' = delta
        /\ UNCHANGED <<targetProgress, object3D, visible, mixer, idleAction,
                       walkAction, charLoad>>

\* CharacterController.update(delta) called on its own
CharacterUpdate(delta) ==
    /\ CharacterStep(delta)
    /\ UNCHANGED <<uiVars, finalActive, expVars, effectVars, restVars>>

\* setTargetProgress(progress) called on the controller directly
SetTargetProgress(progress) ==
    /\ targetProgress' = ClampProgress(progress)
    /\ chaseTicks' = 0
    /\ lastOp' = "setTargetProgress"
    /\ lastArg' = progress
    /\ fadeLog' = NoFade
    /\ UNCHANGED <<currentProgress, lastZ, currentSpeed, object3D, posZ,
                   visible, mixer, idleAction, walkAction, currentAction,
                   charLoad>>
    /\ UNCHANGED <<uiVars, finalActive, expVars, effectVars, cameraVars,
                   progressNaN, domVars, loopVars>>

\* update(delta) called on the controller directly, counted
ChaseTick(delta) ==
    /\ CharacterStep(delta)
    /\ chaseTicks' = chaseTicks + 1
    /\ UNCHANGED <<uiVars, finalActive, expVars, effectVars, cameraVars,
                   progressNaN, domVars, loopVars>>

\* IEEE results of the division in updatePosition that are no fraction: 0/0
\* and x/0 with x > 0
NaNSpeed == <<0, 0>>
InfiniteSpeed == <<1, 0>>

\* Math.abs(z - last) / delta for delta <= 0
SpeedOfMalformed(z, last, delta) ==
    IF delta = 0
    THEN (IF z = last THEN NaNSpeed ELSE InfiniteSpeed)
    ELSE LET f == SpeedOf(z, last, -delta) IN <<-f[1], f[2]>>

\* update(delta) with a delta that is no positive number.  kind is "NaN",
\* "Infinity", "-Infinity" or "finite" (then delta <= 0 is the value).
\*   NaN:       maxStep is NaN; Math.min(|diff|, NaN) and the clamp of NaN are
\*              NaN, so a progress that moves becomes NaN, and z with it
\*   Infinity:  maxStep is Infinity, the step is the whole distance; the
\*              speed |dz| / Infinity is 0
\*   -Infinity: Math.min(|diff|, -Infinity) is -Infinity, the progress is
\*              clamped to the bound away from the target; the speed is -0
\*   finite:    the code's expressions with delta <= 0
\* Once the progress is NaN it stays NaN (Math.abs(NaN) > 0.0001 is false),
\* and so do z and the speed.
CharacterUpdateMalformed(kind, delta) ==
    LET diff == targetProgress - currentProgress
        moves == Abs(diff) > SnapEpsilon
        p == CASE kind = "Infinity" ->
                     IF moves THEN ClampProgress(targetProgress)
                     ELSE currentProgress
               [] kind = "-Infinity" ->
                     IF moves
                     THEN (IF diff > 0 THEN 0 ELSE ProgressScale)
                     ELSE currentProgress
               [] kind = "finite" -> NextProgress(delta)
               [] OTHER -> currentProgress
        nan == progressNaN \/ (kind = "NaN" /\ moves)
        z == ZOfProgress(p)
        speed == CASE nan \/ kind = "NaN" -> NaNSpeed
                   [] kind \in {"Infinity", "-Infinity"} -> <<0, 1>>
                   [] OTHER -> SpeedOfMalformed(z, lastZ, delta)
        to == FadeTarget(speed)
    IN  /\ progressNaN' = nan
        /\ currentProgress' = IF nan THEN currentProgress ELSE p
        /\ lastZ' = IF nan THEN lastZ ELSE z
        /\ posZ' = IF nan THEN posZ ELSE z
        /\ currentSpeed' = speed
        /\ fadeLog' = FadeCalls(to)
        /\ currentAction' = IF to = "none" THEN currentAction ELSE to
        /\ lastOp' = IF kind = "finite"
                     THEN (IF delta = 0 THEN "update(0)" ELSE "update(negative)")
                     ELSE "update(" \o kind \o ")"
        /\ lastArg' = delta
        /\ UNCHANGED <<targetProgress, object3D, visible, mixer, idleAction,
                       walkAction, charLoad>>
        /\ UNCHANGED <<uiVars, finalActive, expVars, effectVars, cameraVars,
                       domVars, chaseTicks, loopVars>>

\* loadCharacterAndAnimations, after the base model has loaded: the
\* placeholder is replaced by the loaded scene (a new object: at the origin,
\* visible), and the two animation files are requested.
CharacterBaseLoaded ==
    /\ charLoad = "base"
    /\ object3D' = "model"
    /\ posZ' = 0
    /\ visible' = TRUE
    /\ charLoad' = "animations"
    /\ lastOp' = "characterLoad"
    /\ lastArg' = 0
    /\ fadeLog' = NoFade
    /\ UNCHANGED <<targetProgress, currentProgress, lastZ, currentSpeed, mixer,
                   idleAction, walkAction, currentAction>>
    /\ UNCHANGED <<uiVars, finalActive, expVars, effectVars, restVars>>

\* loadCharacterAndAnimations, the base model failing to load: the catch
\* keeps the placeholder.
CharacterBaseFailed ==
    /\ charLoad = "base"
    /\ charLoad' = "failed"
    /\ lastOp' = "characterLoad"
    /\ lastArg' = 0
    /\ fadeLog' = NoFade
    /\ UNCHANGED <<targetProgress, currentProgress, lastZ, currentSpeed,
                   object3D, posZ, visible, mixer, idleAction, walkAction,
                   currentAction>>
    /\ UNCHANGED <<uiVars, finalActive, expVars, effectVars, restVars>>

\* setupAnimationsFromFiles / setupAnimationsFromBaseModel: withMixer is
\* whether a mixer is created (the fallback creates none when the base model
\* has no animations), hasIdle / hasWalk whether the clip was found.
CharacterAnimationsSettled(withMixer, hasIdle, hasWalk) ==
    /\ charLoad = "animations"
    /\ withMixer \/ (~hasIdle /\ ~hasWalk)
    /\ mixer' = withMixer
    /\ idleAction' = hasIdle
    /\ walkAction' = hasWalk
    /\ currentAction' = IF hasIdle THEN "idle" ELSE currentAction
    /\ charLoad' = "done"
    /\ lastOp' = "characterLoad"
    /\ lastArg' = 0
    /\ fadeLog' = NoFade
    /\ UNCHANGED <<targetProgress, currentProgress, lastZ, currentSpeed,
                   object3D, posZ, visible>>
    /\ UNCHANGED <<uiVars, finalActive, expVars, effectVars, restVars>>

----------------------------------------------------------------------------
(* The chapters *)

\* SCENES: id, the number of text lines, and whether nextSceneTitle is set
SCENES ==
    << [id |-> "intro",     lines |-> 5, hasNext |-> TRUE],
       [id |-> "lifStreet", lines |-> 5, hasNext |-> TRUE],
       [id |-> "yilSonu",   lines |-> 4, hasNext |-> TRUE],
       [id |-> "gidis",     lines |-> 4, hasNext |-> TRUE],
       [id |-> "final",     lines |-> 0, hasNext |-> FALSE] >>

\* SCENES[index].id; "undefined" past the end of the array
SceneId(index) ==
    IF index \in DOMAIN SCENES THEN SCENES[index].id ELSE "undefined"

----------------------------------------------------------------------------
(* UiController.  Its handlers are functions of the controller's state     *)
(* u = [scene, lastProgress, overlay, panel, visibleCount].                *)

\* The progress from which the next-scene popup is shown: 0.98
NearCompletion == (98 * ProgressScale) \div 100

UiState ==
    [scene |-> uiScene, lastProgress |-> lastProgress,
     overlay |-> overlayActive, panel |-> panelVisible,
     visibleCount |-> visibleCount]

\* hideNextOverlay()
HideNextOverlay(u) == [u EXCEPT !.overlay = FALSE]

\* updateNextOverlay showing the popup whether or not the scene names a next one
UpdateNextOverlay_IgnoresTitle(u, progress) ==
    IF u.scene = 0 THEN u
    ELSE IF progress >= NearCompletion
         THEN [u EXCEPT !.overlay = TRUE]
         ELSE HideNextOverlay(u)

\* updateNextOverlay(progress)
UpdateNextOverlay(u, progress) ==
    IF u.scene = 0 THEN u
    ELSE IF progress >= NearCompletion /\ SCENES[u.scene].hasNext
         THEN [u EXCEPT !.overlay = TRUE]
         ELSE HideNextOverlay(u)

\* Math.max(1, Math.min(lineCount, Math.ceil(clamped * lineCount)))
VisibleLines(clamped, lineCount) ==
    Max(1, Min(lineCount,
               (clamped * lineCount + ProgressScale - 1) \div ProgressScale))

\* updateProgress(progress)
UpdateProgress(u, progress) ==
    IF u.scene = 0 THEN u
    ELSE LET clamped == Min(ProgressScale, Max(0, progress))
             lineCount == SCENES[u.scene].lines
             shown == IF lineCount = 0 THEN u.visibleCount
                      ELSE VisibleLines(clamped, lineCount)
         IN  UpdateNextOverlay(
                 [u EXCEPT !.lastProgress = clamped, !.visibleCount = shown],
                 clamped)

\* setScene(scene) without its reset of lastProgress
SetScene_KeepsProgress(u, index) ==
    HideNextOverlay([u EXCEPT !.scene = index, !.visibleCount = 0])

\* setScene(scene): the panel is rebuilt with every line hidden
SetScene(u, index) ==
    HideNextOverlay(
        [u EXCEPT !.scene = index, !.lastProgress = 0, !.visibleCount = 0])

\* setPanelVisible(visible)
SetPanelVisible(u, v) == [u EXCEPT !.panel = v]

UiBecomes(u) ==
    /\ uiScene' = u.scene
    /\ lastProgress' = u.lastProgress
    /\ overlayActive' = u.overlay
    /\ panelVisible' = u.panel
    /\ visibleCount' = u.visibleCount

\* uiController.setScene(SCENES[index].ui) called on the controller directly
UiSetScene(index) ==
    /\ UiBecomes(SetScene(UiState, index))
    /\ lastOp' = "setScene"
    /\ lastArg' = index
    /\ fadeLog' = NoFade
    /\ UNCHANGED <<charVars, finalActive, expVars, effectVars, restVars>>

\* uiController.updateProgress(progress) called on the controller directly
UiUpdateProgress(progress) ==
    /\ UiBecomes(UpdateProgress(UiState, progress))
    /\ lastOp' = "updateProgress"
    /\ lastArg' = progress
    /\ fadeLog' = NoFade
    /\ UNCHANGED <<charVars, finalActive, expVars, effectVars, restVars>>

----------------------------------------------------------------------------
(* Experience: the chapter environments.  w = world holds one flag per      *)
(* nullable handle, the environment objects scene.add has put in the scene, *)
(* scene.background and the lightning timers.                               *)

LifObjects ==
    {"lifTribune", "lifSun", "lifSunPointLight", "lifSunLight", "lifSunTarget"}

YilSonuObjects == {"yilSonuIsland"}

GidisObjects ==
    {"gidisSun", "gidisSunLight", "gidisSunTarget", "gidisAmbientLight",
     "gidisRainPoints", "gidisLightningLight", "gidisLightningTarget"}

\* The objects the setup of chapter id creates
ChapterObjects(id) ==
    CASE id = "lifStreet" -> LifObjects
      [] id = "yilSonu" -> YilSonuObjects
      [] id = "gidis" -> GidisObjects
      [] OTHER -> {}

EmptyWorld ==
    [lifTribune |-> FALSE, lifSun |-> FALSE, lifSunPointLight |-> FALSE,
     lifSunLight |-> FALSE, yilSonuIsland |-> FALSE, gidisSun |-> FALSE,
     gidisSunLight |-> FALSE, gidisAmbientLight |-> FALSE,
     gidisRainGeometry |-> FALSE, gidisRainMaterial |-> FALSE,
     gidisRainPoints |-> FALSE, gidisLightningLight |-> FALSE,
     objects |-> {}, background |-> "null",
     gidisLightningTimer |-> 0, gidisLightningCooldown |-> 0]

\* cleanupLifStreetEnvironment leaving the directional light's target in the scene
CleanupLifStreetEnvironment_KeepsTarget(w) ==
    LET gone == (IF w.lifTribune THEN {"lifTribune"} ELSE {})
                \cup (IF w.lifSun THEN {"lifSun"} ELSE {})
                \cup (IF w.lifSunPointLight THEN {"lifSunPointLight"} ELSE {})
                \cup (IF w.lifSunLight THEN {"lifSunLight"} ELSE {})
    IN  [w EXCEPT !.lifTribune = FALSE, !.lifSun = FALSE,
                  !.lifSunPointLight = FALSE, !.lifSunLight = FALSE,
                  !.objects = @ \ gone]

\* cleanupLifStreetEnvironment()
CleanupLifStreetEnvironment(w) ==
    LET gone == (IF w.lifTribune THEN {"lifTribune"} ELSE {})
                \cup (IF w.lifSun THEN {"lifSun"} ELSE {})
                \cup (IF w.lifSunPointLight THEN {"lifSunPointLight"} ELSE {})
                \cup (IF w.lifSunLight THEN {"lifSunLight", "lifSunTarget"}
                      ELSE {})
    IN  [w EXCEPT !.lifTribune = FALSE, !.lifSun = FALSE,
                  !.lifSunPointLight = FALSE, !.lifSunLight = FALSE,
                  !.objects = @ \ gone]

\* cleanupYilSonuEnvironment()
CleanupYilSonuEnvironment(w) ==
    [w EXCEPT !.yilSonuIsland = FALSE,
              !.objects = IF w.yilSonuIsland THEN @ \ {"yilSonuIsland"} ELSE @]

\* cleanupGidisEnvironment()
CleanupGidisEnvironment(w) ==
    LET gone == (IF w.gidisSun THEN {"gidisSun"} ELSE {})
                \cup (IF w.gidisSunLight
                      THEN {"gidisSunLight", "gidisSunTarget"} ELSE {})
                \cup (IF w.gidisAmbientLight THEN {"gidisAmbientLight"} ELSE {})
                \cup (IF w.gidisRainPoints THEN {"gidisRainPoints"} ELSE {})
                \cup (IF w.gidisLightningLight
                      THEN {"gidisLightningLight", "gidisLightningTarget"}
                      ELSE {})
    IN  [w EXCEPT !.gidisSun = FALSE, !.gidisSunLight = FALSE,
                  !.gidisAmbientLight = FALSE,
                  !.background = IF w.gidisAmbientLight THEN "null" ELSE @,
                  !.gidisRainPoints = FALSE, !.gidisRainGeometry = FALSE,
                  !.gidisRainMaterial = FALSE, !.gidisLightningLight = FALSE,
                  !.objects = @ \ gone,
                  !.gidisLightningTimer = 0, !.gidisLightningCooldown = 0]

\* cleanupSceneEnvironment with the break statements of its switch missing:
\* every case falls through to the ones below it
CleanupSceneEnvironment_FallsThrough(index, w) ==
    CASE SceneId(index) = "lifStreet" ->
            CleanupGidisEnvironment(
                CleanupYilSonuEnvironment(CleanupLifStreetEnvironment(w)))
      [] SceneId(index) = "yilSonu" ->
            CleanupGidisEnvironment(CleanupYilSonuEnvironment(w))
      [] SceneId(index) = "gidis" -> CleanupGidisEnvironment(w)
      [] OTHER -> w

\* cleanupSceneEnvironment(sceneIndex)
CleanupSceneEnvironment(index, w) ==
    CASE SceneId(index) = "lifStreet" -> CleanupLifStreetEnvironment(w)
      [] SceneId(index) = "yilSonu" -> CleanupYilSonuEnvironment(w)
      [] SceneId(index) = "gidis" -> CleanupGidisEnvironment(w)
      [] OTHER -> w

\* for (let i = 0; i < SCENES.length; i++) cleanupSceneEnvironment(i), from i on
RECURSIVE CleanupFrom(_, _)
CleanupFrom(i, w) ==
    IF i > Len(SCENES) THEN w
    ELSE CleanupFrom(i + 1, CleanupSceneEnvironment(i, w))

\* setupGidisEnvironment, steps 2 to 5: what it creates once the sun is there
GidisCreateRest(w, cooldown) ==
    LET light == ~w.gidisSunLight
        ambient == ~w.gidisAmbientLight
        rain == ~w.gidisRainPoints
        lightning == ~w.gidisLightningLight
        added == (IF light THEN {"gidisSunLight", "gidisSunTarget"} ELSE {})
                 \cup (IF ambient THEN {"gidisAmbientLight"} ELSE {})
                 \cup (IF rain THEN {"gidisRainPoints"} ELSE {})
                 \cup (IF lightning
                       THEN {"gidisLightningLight", "gidisLightningTarget"}
                       ELSE {})
    IN  [w EXCEPT !.gidisSunLight = TRUE, !.gidisAmbientLight = TRUE,
                  !.background = IF ambient THEN "dark" ELSE @,
                  !.gidisRainGeometry = IF rain THEN TRUE ELSE @,
                  !.gidisRainMaterial = IF rain THEN TRUE ELSE @,
                  !.gidisRainPoints = TRUE, !.gidisLightningLight = TRUE,
                  !.gidisLightningTimer = IF lightning THEN 0 ELSE @,
                  !.gidisLightningCooldown = IF lightning THEN cooldown ELSE @,
                  !.objects = @ \cup added]

\* setupSceneEnvironment(sceneIndex), up to the first await of the setup it
\* calls: which load is now in flight.  It is called only by
\* applyCurrentScene, right after every cleanup, so the "already created"
\* guards of the setups see null handles; for gidis, a sun that is there
\* while rain or lightning is missing is no state a cleanup leaves.
SetupSceneEnvironment(index, w, loads) ==
    CASE SceneId(index) = "lifStreet" ->
            IF w.lifTribune \/ w.lifSun \/ w.lifSunLight THEN loads
            ELSE [loads EXCEPT !.lifStreet = "tribune"]
      [] SceneId(index) = "yilSonu" ->
            IF w.yilSonuIsland THEN loads
            ELSE [loads EXCEPT !.yilSonu = "island"]
      [] SceneId(index) = "gidis" ->
            IF w.gidisSun THEN loads
            ELSE [loads EXCEPT !.gidis = "sun"]
      [] OTHER -> loads

\* applyCurrentScene() treating the final chapter like the others
ApplyCurrentScene_NoFinalBranch(index) ==
    LET cleaned == CleanupFrom(1, world)
        u == UpdateProgress(
                 SetPanelVisible(SetScene(UiState, index), TRUE), 0)
    IN  /\ world' = cleaned
        /\ sceneProgress' = 0
        /\ targetProgress' = ClampProgress(0)
        /\ UiBecomes(u)
        /\ visible' = TRUE
        /\ finalActive' = FALSE
        /\ envLoad' = SetupSceneEnvironment(index, cleaned, envLoad)
        /\ UNCHANGED <<currentProgress, lastZ, currentSpeed, object3D, posZ,
                       mixer, idleAction, walkAction, currentAction, charLoad>>

\* applyCurrentScene(), with this.currentSceneIndex = index
ApplyCurrentScene(index) ==
    LET cleaned == CleanupFrom(1, world)
        isFinal == SceneId(index) = "final"
        u == IF isFinal
             THEN SetPanelVisible(SetScene(UiState, index), FALSE)
             ELSE UpdateProgress(
                      SetPanelVisible(SetScene(UiState, index), TRUE), 0)
    IN  /\ world' = cleaned
        /\ sceneProgress' = 0
        /\ targetProgress' = ClampProgress(0)
        /\ UiBecomes(u)
        /\ visible' = ~isFinal
        /\ finalActive' = isFinal
        /\ envLoad' = SetupSceneEnvironment(index, cleaned, envLoad)
        /\ UNCHANGED <<currentProgress, lastZ, currentSpeed, object3D, posZ,
                       mixer, idleAction, walkAction, currentAction, charLoad>>

\* if (this.currentSceneIndex >= SCENES.length - 1)
NoMoreScenes == currentSceneIndex >= Len(SCENES)

\* goToNextScene applying the last scene again instead of returning
GoToNextScene_NoReturn ==
    LET index == Min(currentSceneIndex + 1, Len(SCENES))
    IN  /\ currentSceneIndex' = index
        /\ ApplyCurrentScene(index)
        /\ lastOp' = "applyScene"

\* goToNextScene starting over with the first scene after the last
GoToNextScene_Wraps ==
    LET index == IF NoMoreScenes THEN 1 ELSE currentSceneIndex + 1
    IN  /\ currentSceneIndex' = index
        /\ ApplyCurrentScene(index)
        /\ lastOp' = "applyScene"

\* goToNextScene()
GoToNextScene ==
    IF NoMoreScenes
    THEN /\ lastOp' = "noMoreScenes"
         /\ UNCHANGED <<charVars, finalActive, expVars>>
    ELSE /\ currentSceneIndex' = currentSceneIndex + 1
         /\ ApplyCurrentScene(currentSceneIndex + 1)
         /\ lastOp' = "applyScene"

\* The click listener of the next button: hideNextOverlay(), onNextScene()
NextButtonClick ==
    /\ GoToNextScene
    /\ IF lastOp' = "noMoreScenes" THEN UiBecomes(HideNextOverlay(UiState))
       ELSE TRUE
    /\ lastArg' = 0
    /\ fadeLog' = NoFade
    /\ UNCHANGED <<effectVars, restVars>>

\* The callback with the two bounds of its clamp exchanged
ScrollCallback_SwappedBounds(progress) ==
    /\ IF SceneId(currentSceneIndex) = "final"
       THEN /\ lastOp' = "scrollIgnored"
            /\ UNCHANGED <<sceneProgress, targetProgress, uiVars>>
       ELSE LET clamped == Min(0, Max(ProgressScale, progress))
            IN  /\ sceneProgress' = clamped
                /\ targetProgress' = ClampProgress(clamped)
                /\ UiBecomes(UpdateProgress(UiState, clamped))
                /\ lastOp' = "scroll"
    /\ lastArg' = progress
    /\ fadeLog' = NoFade
    /\ UNCHANGED <<currentProgress, lastZ, currentSpeed, object3D, posZ,
                   visible, mixer, idleAction, walkAction, currentAction,
                   charLoad>>
    /\ UNCHANGED <<finalActive, currentSceneIndex, world, envLoad, effectVars,
                   restVars>>

\* The callback without its early return on the final scene
ScrollCallback_NoFinalCheck(progress) ==
    /\ LET clamped == Min(ProgressScale, Max(0, progress))
       IN  /\ sceneProgress' = clamped
           /\ targetProgress' = ClampProgress(clamped)
           /\ UiBecomes(UpdateProgress(UiState, clamped))
           /\ lastOp' = "scroll"
    /\ lastArg' = progress
    /\ fadeLog' = NoFade
    /\ UNCHANGED <<currentProgress, lastZ, currentSpeed, object3D, posZ,
                   visible, mixer, idleAction, walkAction, currentAction,
                   charLoad>>
    /\ UNCHANGED <<finalActive, currentSceneIndex, world, envLoad, effectVars,
                   restVars>>

\* The ScrollController callback of the Experience constructor
ScrollCallback(progress) ==
    /\ IF SceneId(currentSceneIndex) = "final"
       THEN /\ lastOp' = "scrollIgnored"
            /\ UNCHANGED <<sceneProgress, targetProgress, uiVars>>
       ELSE LET clamped == Min(ProgressScale, Max(0, progress))
            IN  /\ sceneProgress' = clamped
                /\ targetProgress' = ClampProgress(clamped)
                /\ UiBecomes(UpdateProgress(UiState, clamped))
                /\ lastOp' = "scroll"
    /\ lastArg' = progress
    /\ fadeLog' = NoFade
    /\ UNCHANGED <<currentProgress, lastZ, currentSpeed, object3D, posZ,
                   visible, mixer, idleAction, walkAction, currentAction,
                   charLoad>>
    /\ UNCHANGED <<finalActive, currentSceneIndex, world, envLoad, effectVars,
                   restVars>>

----------------------------------------------------------------------------
(* The asynchronous environment setups, from their awaits on *)

EnvLoadStep(w, loads) ==
    /\ world' = w
    /\ envLoad' = loads
    /\ lastOp' = "environmentLoad"
    /\ lastArg' = 0
    /\ fadeLog' = NoFade
    /\ UNCHANGED <<charVars, uiVars, finalActive, currentSceneIndex,
                   sceneProgress, restVars>>

\* setupLifStreetEnvironment after the stadium has loaded; the sun is requested
LifTribuneLoaded ==
    /\ envLoad.lifStreet = "tribune"
    /\ EnvLoadStep([world EXCEPT !.lifTribune = TRUE,
                                 !.objects = @ \cup {"lifTribune"}],
                   [envLoad EXCEPT !.lifStreet = "sun"])
    /\ UNCHANGED effectVars

\* setupLifStreetEnvironment after the sun has loaded: sun, point light,
\* directional light and its target
LifSunLoaded ==
    /\ envLoad.lifStreet = "sun"
    /\ EnvLoadStep([world EXCEPT !.lifSun = TRUE, !.lifSunPointLight = TRUE,
                                 !.lifSunLight = TRUE,
                                 !.objects = @ \cup {"lifSun",
                                     "lifSunPointLight", "lifSunTarget",
                                     "lifSunLight"}],
                   [envLoad EXCEPT !.lifStreet = "done"])
    /\ UNCHANGED effectVars

\* setupLifStreetEnvironment, a load rejecting: the catch logs it
LifLoadFailed ==
    /\ envLoad.lifStreet \in {"tribune", "sun"}
    /\ EnvLoadStep(world, [envLoad EXCEPT !.lifStreet = "failed"])
    /\ UNCHANGED effectVars

\* setupYilSonuEnvironment after the island has loaded
YilSonuIslandLoaded ==
    /\ envLoad.yilSonu = "island"
    /\ EnvLoadStep([world EXCEPT !.yilSonuIsland = TRUE,
                                 !.objects = @ \cup {"yilSonuIsland"}],
                   [envLoad EXCEPT !.yilSonu = "done"])
    /\ UNCHANGED effectVars

\* setupYilSonuEnvironment, the load rejecting
YilSonuLoadFailed ==
    /\ envLoad.yilSonu = "island"
    /\ EnvLoadStep(world, [envLoad EXCEPT !.yilSonu = "failed"])
    /\ UNCHANGED effectVars

\* setupGidisEnvironment after the sun has loaded: the sun, then steps 2 to 5;
\* cooldown is the 2 + Math.random() * 4 of the lightning
\* rain is the random position of each drop
GidisSunLoaded(cooldown, rain) ==
    /\ envLoad.gidis = "sun"
    /\ EnvLoadStep(GidisCreateRest([world EXCEPT !.gidisSun = TRUE,
                                        !.objects = @ \cup {"gidisSun"}],
                                   cooldown),
                   [envLoad EXCEPT !.gidis = "done"])
    /\ rainX' = IF world.gidisRainPoints THEN rainX
                ELSE [i \in DOMAIN rain |-> rain[i].x]
    /\ rainY' = IF world.gidisRainPoints THEN rainY
                ELSE [i \in DOMAIN rain |-> rain[i].y]
    /\ rainZ' = IF world.gidisRainPoints THEN rainZ
                ELSE [i \in DOMAIN rain |-> rain[i].z]
    /\ lightningIntensity' =
           IF world.gidisLightningLight THEN lightningIntensity ELSE <<0, 1>>
    /\ lightningPosition' =
           IF world.gidisLightningLight THEN lightningPosition
           ELSE <<-5 * WorldScale, 10 * WorldScale, -15 * WorldScale>>
    /\ UNCHANGED gidisLightningDuration

\* setupGidisEnvironment catching the rejected load and going on with the
\* lights, the rain and the lightning
GidisLoadFailed_GoesOn ==
    /\ envLoad.gidis = "sun"
    /\ EnvLoadStep(GidisCreateRest(world, 2 * TimeScale),
                   [envLoad EXCEPT !.gidis = "failed"])
    /\ UNCHANGED effectVars

\* setupGidisEnvironment, the load rejecting: nothing after it is created
GidisLoadFailed ==
    /\ envLoad.gidis = "sun"
    /\ EnvLoadStep(world, [envLoad EXCEPT !.gidis = "failed"])
    /\ UNCHANGED effectVars

----------------------------------------------------------------------------
(* CameraController *)

\* this.offset
CameraOffset == <<0, 2 * WorldScale, 4 * WorldScale>>

\* this.lookAtOffset
LookAtOffset == <<0, WorldScale, 0>>

\* Factors are held in twentieths: 0.15 is 3, 0.1 is 2
FactorScale == 20

Vec3Add(a, b) == <<a[1] + b[1], a[2] + b[2], a[3] + b[3]>>

\* Vector3.lerp(v, alpha): this += (v - this) * alpha, on each axis
Vec3Lerp(a, v, alpha) ==
    [i \in 1 .. 3 |-> a[i] + ((v[i] - a[i]) \div FactorScale) * alpha]

\* The lerp is computed without rounding in the model's units
Vec3LerpIsWhole(a, v) == \A i \in 1 .. 3 : (v[i] - a[i]) % FactorScale = 0

\* target.position of the character's object with position.z = z: the
\* placeholder box sits at y = 0.9, the loaded model at the origin
SubjectPosition(object, z) ==
    <<0, IF object = "placeholder" THEN (9 * WorldScale) \div 10 ELSE 0,
      z * (WorldScale \div ZScale)>>

\* follow(target) copying the smoothed position to the camera before the lerp
Follow_CopiesBeforeLerp(subject) ==
    LET desiredPosition == Vec3Add(subject, offset)
        lookAtTarget == Vec3Add(subject, LookAtOffset)
    IN  /\ Vec3LerpIsWhole(currentPosition, desiredPosition)
        /\ Vec3LerpIsWhole(currentLookAt, lookAtTarget)
        /\ currentPosition' =
               Vec3Lerp(currentPosition, desiredPosition, smoothFactor)
        /\ cameraPosition' = currentPosition
        /\ currentLookAt' = Vec3Lerp(currentLookAt, lookAtTarget, smoothFactor)
        /\ cameraLookAt' = currentLookAt'
        /\ lastOp' = "follow"
        /\ lastArg' = subject
        /\ fadeLog' = NoFade
        /\ UNCHANGED <<smoothFactor, offset, cameraAspect, rendered>>
        /\ UNCHANGED <<charVars, uiVars, finalActive, expVars, effectVars,
                       progressNaN, domVars, chaseTicks, loopVars>>

\* follow(target), target.position = subject; taken while both lerps stay
\* whole in the model's units
Follow(subject) ==
    LET desiredPosition == Vec3Add(subject, offset)
        lookAtTarget == Vec3Add(subject, LookAtOffset)
    IN  /\ Vec3LerpIsWhole(currentPosition, desiredPosition)
        /\ Vec3LerpIsWhole(currentLookAt, lookAtTarget)
        /\ currentPosition' =
               Vec3Lerp(currentPosition, desiredPosition, smoothFactor)
        /\ cameraPosition' = currentPosition'
        /\ currentLookAt' = Vec3Lerp(currentLookAt, lookAtTarget, smoothFactor)
        /\ cameraLookAt' = currentLookAt'
        /\ lastOp' = "follow"
        /\ lastArg' = subject
        /\ fadeLog' = NoFade
        /\ UNCHANGED <<smoothFactor, offset, cameraAspect, rendered>>
        /\ UNCHANGED <<charVars, uiVars, finalActive, expVars, effectVars,
                       progressNaN, domVars, chaseTicks, loopVars>>

\* setSmoothFactor(factor) storing the factor as it was handed in
SetSmoothFactor_NoClamp(factor) ==
    /\ smoothFactor' = factor
    /\ lastOp' = "setSmoothFactor"
    /\ lastArg' = factor
    /\ fadeLog' = NoFade
    /\ UNCHANGED <<cameraPosition, cameraLookAt, currentPosition,
                   currentLookAt, offset, cameraAspect, rendered>>
    /\ UNCHANGED <<charVars, uiVars, finalActive, expVars, effectVars,
                   progressNaN, domVars, chaseTicks, loopVars>>

\* setSmoothFactor(factor)
SetSmoothFactor(factor) ==
    /\ smoothFactor' = Clamp(factor, 0, FactorScale)
    /\ lastOp' = "setSmoothFactor"
    /\ lastArg' = factor
    /\ fadeLog' = NoFade
    /\ UNCHANGED <<cameraPosition, cameraLookAt, currentPosition,
                   currentLookAt, offset, cameraAspect, rendered>>
    /\ UNCHANGED <<charVars, uiVars, finalActive, expVars, effectVars,
                   progressNaN, domVars, chaseTicks, loopVars>>

\* setOffset(x, y, z) also moving the smoothed position by the change of the
\* offset
SetOffset_MovesCamera(v) ==
    /\ offset' = v
    /\ currentPosition' =
           [i \in 1 .. 3 |-> currentPosition[i] + v[i] - offset[i]]
    /\ lastOp' = "setOffset"
    /\ lastArg' = v
    /\ fadeLog' = NoFade
    /\ UNCHANGED <<cameraPosition, cameraLookAt, currentLookAt, smoothFactor,
                   cameraAspect, rendered>>
    /\ UNCHANGED <<charVars, uiVars, finalActive, expVars, effectVars,
                   progressNaN, domVars, chaseTicks, loopVars>>

\* setOffset(x, y, z), v = <<x, y, z>>
SetOffset(v) ==
    /\ offset' = v
    /\ lastOp' = "setOffset"
    /\ lastArg' = v
    /\ fadeLog' = NoFade
    /\ UNCHANGED <<cameraPosition, cameraLookAt, currentPosition,
                   currentLookAt, smoothFactor, cameraAspect, rendered>>
    /\ UNCHANGED <<charVars, uiVars, finalActive, expVars, effectVars,
                   progressNaN, domVars, chaseTicks, loopVars>>

\* onResize(width, height); updateProjectionMatrix recomputes the projection
\* from the aspect
OnResize(width, height) ==
    /\ cameraAspect' = Frac(width, height)
    /\ lastOp' = "onResize"
    /\ lastArg' = <<width, height>>
    /\ fadeLog' = NoFade
    /\ UNCHANGED <<cameraPosition, cameraLookAt, currentPosition,
                   currentLookAt, smoothFactor, offset, rendered>>
    /\ UNCHANGED <<charVars, uiVars, finalActive, expVars, effectVars,
                   progressNaN, domVars, chaseTicks, loopVars>>

----------------------------------------------------------------------------
(* Experience.update: one frame *)

\* updateCameraFollow: offset, followLerp (0.1) and the look-at offset
FollowOffset == <<0, (17 * WorldScale) \div 10, 4 * WorldScale>>
FollowLerp == FactorScale \div 10
FollowLookAtOffset == <<0, (15 * WorldScale) \div 10, 0>>

\* rainSpeed * delta, in world units
RainFall(delta) == 9 * delta * (WorldScale \div TimeScale)

\* 6.5 * (t * t) with t = max(0, timer / duration)
FlashIntensity(timer, duration) ==
    IF timer <= 0 THEN <<0, 1>>
    ELSE Frac(65 * timer * timer, 10 * duration * duration)

\* The rain loop putting a drop back on top when it is below the ground
\* before its fall of this frame
RainStep_ResetsBeforeFalling(delta, reset) ==
    LET raining == world.gidisRainGeometry /\ world.gidisRainPoints
        below(i) == rainY[i] < 0
    IN  /\ rainY' = IF raining
                    THEN [i \in DOMAIN rainY |->
                             (IF below(i) THEN reset[i].y ELSE rainY[i])
                                 - RainFall(delta)]
                    ELSE rainY
        /\ rainX' = IF raining
                    THEN [i \in DOMAIN rainX |->
                             IF below(i) THEN reset[i].x ELSE rainX[i]]
                    ELSE rainX
        /\ rainZ' = IF raining
                    THEN [i \in DOMAIN rainZ |->
                             IF below(i) THEN reset[i].z ELSE rainZ[i]]
                    ELSE rainZ

\* The rain loop of updateGidisEffects(delta): reset[i] is the random position
\* drawn for drop i when it is put back on top
RainStep(delta, reset) ==
    LET raining == world.gidisRainGeometry /\ world.gidisRainPoints
        fallen(i) == rainY[i] - RainFall(delta)
    IN  /\ rainY' = IF raining
                    THEN [i \in DOMAIN rainY |->
                             IF fallen(i) < 0 THEN reset[i].y ELSE fallen(i)]
                    ELSE rainY
        /\ rainX' = IF raining
                    THEN [i \in DOMAIN rainX |->
                             IF fallen(i) < 0 THEN reset[i].x ELSE rainX[i]]
                    ELSE rainX
        /\ rainZ' = IF raining
                    THEN [i \in DOMAIN rainZ |->
                             IF fallen(i) < 0 THEN reset[i].z ELSE rainZ[i]]
                    ELSE rainZ

\* updateGidisEffects counting the cooldown down during a flash as well
UpdateGidisEffects_CooldownRunsInFlash(delta, reset, duration, cooldown) ==
    LET timer == world.gidisLightningTimer - delta
        wait == world.gidisLightningCooldown - delta
    IN  /\ RainStep(delta, reset)
        /\ IF ~world.gidisLightningLight
           THEN UNCHANGED <<world, lightningIntensity, lightningPosition,
                            gidisLightningDuration>>
           ELSE IF world.gidisLightningTimer > 0
           THEN /\ world' = [world EXCEPT !.gidisLightningTimer = timer,
                                          !.gidisLightningCooldown = wait]
                /\ lightningIntensity' =
                       FlashIntensity(timer, gidisLightningDuration)
                /\ UNCHANGED <<lightningPosition, gidisLightningDuration>>
           ELSE IF wait <= 0
           THEN /\ gidisLightningDuration' = duration
                /\ world' = [world EXCEPT !.gidisLightningTimer = duration,
                                          !.gidisLightningCooldown = cooldown]
                /\ lightningPosition' =
                       Vec3Add(cameraPosition,
                               <<0, 6 * WorldScale, -10 * WorldScale>>)
                /\ UNCHANGED lightningIntensity
           ELSE /\ world' = [world EXCEPT !.gidisLightningCooldown = wait]
                /\ UNCHANGED <<lightningIntensity, lightningPosition,
                               gidisLightningDuration>>

\* updateGidisEffects(delta): reset, duration and cooldown are the random
\* numbers it draws (position of each drop put back on top, length of a new
\* flash, time to the flash after it); the horizontal jitter of a flash is
\* left out
UpdateGidisEffects(delta, reset, duration, cooldown) ==
    LET timer == world.gidisLightningTimer - delta
        wait == world.gidisLightningCooldown - delta
    IN  /\ RainStep(delta, reset)
        /\ IF ~world.gidisLightningLight
           THEN UNCHANGED <<world, lightningIntensity, lightningPosition,
                            gidisLightningDuration>>
           ELSE IF world.gidisLightningTimer > 0
           THEN /\ world' = [world EXCEPT !.gidisLightningTimer = timer]
                /\ lightningIntensity' =
                       FlashIntensity(timer, gidisLightningDuration)
                /\ UNCHANGED <<lightningPosition, gidisLightningDuration>>
           ELSE IF wait <= 0
           THEN /\ gidisLightningDuration' = duration
                /\ world' = [world EXCEPT !.gidisLightningTimer = duration,
                                          !.gidisLightningCooldown = cooldown]
                /\ lightningPosition' =
                       Vec3Add(cameraPosition,
                               <<0, 6 * WorldScale, -10 * WorldScale>>)
                /\ UNCHANGED lightningIntensity
           ELSE /\ world' = [world EXCEPT !.gidisLightningCooldown = wait]
                /\ UNCHANGED <<lightningIntensity, lightningPosition,
                               gidisLightningDuration>>

\* updateCameraFollow(), reading the position the character now has
UpdateCameraFollow(subject) ==
    /\ cameraPosition' =
           Vec3Lerp(cameraPosition, Vec3Add(subject, FollowOffset), FollowLerp)
    /\ cameraLookAt' = Vec3Add(subject, FollowLookAtOffset)
    /\ UNCHANGED <<currentPosition, currentLookAt, smoothFactor, offset,
                   cameraAspect>>

\* update() following the character before moving it
Frame_CameraBeforeCharacter(delta, reset, duration, cooldown) ==
    /\ Vec3LerpIsWhole(cameraPosition,
                       Vec3Add(SubjectPosition(object3D, posZ), FollowOffset))
    /\ CharacterStep(delta)
    /\ IF SceneId(currentSceneIndex) = "gidis"
       THEN UpdateGidisEffects(delta, reset, duration, cooldown)
       ELSE UNCHANGED <<world, effectVars>>
    /\ UpdateCameraFollow(SubjectPosition(object3D, posZ))
    /\ rendered' = [camera |-> cameraPosition', lookAt |-> cameraLookAt',
                    subject |-> SubjectPosition(object3D', posZ'),
                    subjectVisible |-> visible', objects |-> world'.objects]
    /\ UNCHANGED <<uiVars, finalActive, currentSceneIndex, sceneProgress,
                   envLoad, progressNaN, domVars, chaseTicks, loopVars>>

\* update() running the effects of gidis whatever the chapter
Frame_EffectsOnEveryChapter(delta, reset, duration, cooldown) ==
    /\ Vec3LerpIsWhole(cameraPosition,
                       Vec3Add(SubjectPosition(object3D,
                                   ZOfProgress(NextProgress(delta))),
                               FollowOffset))
    /\ CharacterStep(delta)
    /\ UpdateGidisEffects(delta, reset, duration, cooldown)
    /\ UpdateCameraFollow(SubjectPosition(object3D', posZ'))
    /\ rendered' = [camera |-> cameraPosition', lookAt |-> cameraLookAt',
                    subject |-> SubjectPosition(object3D', posZ'),
                    subjectVisible |-> visible', objects |-> world'.objects]
    /\ UNCHANGED <<uiVars, finalActive, currentSceneIndex, sceneProgress,
                   envLoad, progressNaN, domVars, chaseTicks, loopVars>>

\* update() with updateGidisEffects using the rain and the lightning light
\* unchecked: on gidis without them the frame ends in a TypeError before the
\* camera follow and the render
Frame_EffectsNeedEnvironment(delta, reset, duration, cooldown) ==
    /\ Vec3LerpIsWhole(cameraPosition,
                       Vec3Add(SubjectPosition(object3D,
                                   ZOfProgress(NextProgress(delta))),
                               FollowOffset))
    /\ SceneId(currentSceneIndex) = "gidis" =>
           /\ world.gidisRainGeometry
           /\ world.gidisRainPoints
           /\ world.gidisLightningLight
    /\ CharacterStep(delta)
    /\ IF SceneId(currentSceneIndex) = "gidis"
       THEN UpdateGidisEffects(delta, reset, duration, cooldown)
       ELSE UNCHANGED <<world, effectVars>>
    /\ UpdateCameraFollow(SubjectPosition(object3D', posZ'))
    /\ rendered' = [camera |-> cameraPosition', lookAt |-> cameraLookAt',
                    subject |-> SubjectPosition(object3D', posZ'),
                    subjectVisible |-> visible', objects |-> world'.objects]
    /\ UNCHANGED <<uiVars, finalActive, currentSceneIndex, sceneProgress,
                   envLoad, progressNaN, domVars, chaseTicks, loopVars>>

\* update() past its scheduling: character, effects, camera, render.  The frame is taken
\* while the camera's lerp stays whole in the model's units.
UpdateBody(delta, reset, duration, cooldown) ==
    /\ Vec3LerpIsWhole(cameraPosition,
                       Vec3Add(SubjectPosition(object3D,
                                   ZOfProgress(NextProgress(delta))),
                               FollowOffset))
    /\ CharacterStep(delta)
    /\ IF SceneId(currentSceneIndex) = "gidis"
       THEN UpdateGidisEffects(delta, reset, duration, cooldown)
       ELSE UNCHANGED <<world, effectVars>>
    /\ UpdateCameraFollow(SubjectPosition(object3D', posZ'))
    /\ rendered' = [camera |-> cameraPosition', lookAt |-> cameraLookAt',
                    subject |-> SubjectPosition(object3D', posZ'),
                    subjectVisible |-> visible', objects |-> world'.objects]
    /\ UNCHANGED <<uiVars, finalActive, currentSceneIndex, sceneProgress,
                   envLoad, progressNaN, domVars, chaseTicks>>

\* A frame of the loop where the scheduling is not followed: the body of
\* update
Frame(delta, reset, duration, cooldown) ==
    /\ UpdateBody(delta, reset, duration, cooldown)
    /\ UNCHANGED loopVars

----------------------------------------------------------------------------
(* The elements and listeners of the two DOM controllers *)

\* The elements the UiController constructor requires
UiElements ==
    {"scene-text-panel", "scene-next-overlay", "scene-next-title",
     "scene-next-button"}

\* The elements the FinalChoiceController constructor requires
FinalChoiceElements ==
    {"final-choice-overlay", "final-choice-positive", "final-choice-negative",
     "final-celebration"}

UiListeners == {"scene-next-button:click"}

FinalChoiceListeners ==
    {"final-choice-positive:click", "final-choice-negative:mouseenter",
     "final-choice-negative:mousemove"}

\* The fields the UiController constructor assigns
UiFields ==
    {"UiController.textPanel", "UiController.overlay",
     "UiController.nextTitleEl", "UiController.nextButton"}

\* The fields the FinalChoiceController constructor assigns
FinalChoiceFields ==
    {"FinalChoiceController.root", "FinalChoiceController.positiveBtn",
     "FinalChoiceController.negativeBtn",
     "FinalChoiceController.celebrationEl", "FinalChoiceController.musicEl"}

UiError == "UiController: Missing UI elements in index.html"

FinalChoiceError == "FinalChoiceController: Missing final choice DOM elements"

\* What a constructor of the Experience constructor leaves alone
ConstructorFrame ==
    /\ lastArg' = 0
    /\ fadeLog' = NoFade
    /\ UNCHANGED <<charVars, uiScene, lastProgress, panelVisible,
                   visibleCount, finalActive, expVars, effectVars, cameraVars,
                   progressNaN, document, chaseTicks, loopVars>>

\* new UiController registering its listener before it looks for the elements
ConstructUiController_ListensFirst ==
    /\ constructed = {}
    /\ thrown = "none"
    /\ listeners' = listeners \cup UiListeners
    /\ IF UiElements \subseteq document
       THEN /\ fields' = fields \cup UiFields
            /\ overlayActive' = FALSE
            /\ constructed' = constructed \cup {"UiController"}
            /\ UNCHANGED thrown
       ELSE /\ thrown' = UiError
            /\ UNCHANGED <<fields, constructed, overlayActive>>
    /\ lastOp' = "new UiController"
    /\ ConstructorFrame

\* new UiController(onNextScene), the third controller the Experience
\* constructor creates
ConstructUiController ==
    /\ constructed = {}
    /\ thrown = "none"
    /\ IF UiElements \subseteq document
       THEN /\ fields' = fields \cup UiFields
            /\ listeners' = listeners \cup UiListeners
            /\ overlayActive' = FALSE
            /\ constructed' = constructed \cup {"UiController"}
            /\ UNCHANGED thrown
       ELSE /\ thrown' = UiError
            /\ UNCHANGED <<fields, listeners, constructed, overlayActive>>
    /\ lastOp' = "new UiController"
    /\ ConstructorFrame

\* new FinalChoiceController(), after the UiController
ConstructFinalChoiceController ==
    /\ constructed = {"UiController"}
    /\ thrown = "none"
    /\ IF FinalChoiceElements \subseteq document
       THEN /\ fields' = fields \cup FinalChoiceFields
            /\ listeners' = listeners \cup FinalChoiceListeners
            /\ constructed' = constructed \cup {"FinalChoiceController"}
            /\ UNCHANGED thrown
       ELSE /\ thrown' = FinalChoiceError
            /\ UNCHANGED <<fields, listeners, constructed>>
    /\ UNCHANGED overlayActive
    /\ lastOp' = "new FinalChoiceController"
    /\ ConstructorFrame

\* The rest of the Experience constructor: applyCurrentScene() for the intro
\* and the ScrollController
ApplyInitialScene ==
    /\ constructed = {"UiController", "FinalChoiceController"}
    /\ uiScene = 0
    /\ ApplyCurrentScene(currentSceneIndex)
    /\ lastOp' = "applyScene"
    /\ lastArg' = 0
    /\ fadeLog' = NoFade
    /\ UNCHANGED <<currentSceneIndex, effectVars, restVars>>

\* The Experience constructor has returned
Running ==
    /\ constructed = {"UiController", "FinalChoiceController"}
    /\ uiScene # 0

----------------------------------------------------------------------------
(* The frame loop: start(), stop(), and update as the callback of           *)
(* requestAnimationFrame.  The browser runs, in one animation frame, every  *)
(* callback requested before that frame began; a callback requested while  *)
(* they run waits for the next frame.  Nothing cancels a request.           *)

\* requestAnimationFrame(this.update)
RequestAnimationFrame == scheduled' = scheduled + 1

\* start(): returns at once while running; otherwise sets isRunning, starts
\* the clock and calls update(), which requests a callback and runs its body
\* with the time since clock.start()
Start(delta, reset, duration, cooldown) ==
    /\ firing = 0
    /\ IF isRunning
       THEN /\ lastOp' = "start"
            /\ lastArg' = 0
            /\ fadeLog' = NoFade
            /\ UNCHANGED <<charVars, uiVars, finalActive, expVars, effectVars,
                           cameraVars, progressNaN, domVars, chaseTicks,
                           loopVars>>
       ELSE /\ isRunning' = TRUE
            /\ RequestAnimationFrame
            /\ UpdateBody(delta, reset, duration, cooldown)
            /\ UNCHANGED <<firing, ranInFrame>>

\* stop()
Stop ==
    /\ firing = 0
    /\ isRunning' = FALSE
    /\ lastOp' = "stop"
    /\ lastArg' = 0
    /\ fadeLog' = NoFade
    /\ UNCHANGED <<charVars, uiVars, finalActive, expVars, effectVars,
                   cameraVars, progressNaN, domVars, chaseTicks, scheduled,
                   firing, ranInFrame>>

\* The browser begins an animation frame: the callbacks requested so far are
\* the ones it will run
BeginAnimationFrame ==
    /\ firing = 0
    /\ scheduled > 0
    /\ firing' = scheduled
    /\ scheduled' = 0
    /\ ranInFrame' = 0
    /\ UNCHANGED <<charVars, uiVars, finalActive, expVars, effectVars,
                   cameraVars, progressNaN, domVars, chaseTicks, isRunning,
                   lastOp, lastArg, fadeLog>>

\* update as a callback of the animation frame
UpdateCallback(delta, reset, duration, cooldown) ==
    /\ firing > 0
    /\ firing' = firing - 1
    /\ IF ~isRunning
       THEN /\ lastOp' = "update(stopped)"
            /\ lastArg' = 0
            /\ fadeLog' = NoFade
            /\ UNCHANGED <<charVars, uiVars, finalActive, expVars, effectVars,
                           cameraVars, progressNaN, domVars, chaseTicks,
                           isRunning, scheduled, ranInFrame>>
       ELSE /\ RequestAnimationFrame
            /\ ranInFrame' = ranInFrame + 1
            /\ UpdateBody(delta, reset, duration, cooldown)
            /\ UNCHANGED isRunning

----------------------------------------------------------------------------
(* Inputs *)

ScrollGrid == 2

MaxDeltaMultiple == 2

\* Scroll positions handed to the callback: a grid from below 0 to above 1,
\* the two sides of 0.98, and two values close to 0 (within and beyond 0.0001)
ProgressInputs ==
    {(k * ProgressScale) \div ScrollGrid : k \in -1 .. ScrollGrid + 1}
    \cup {NearCompletion - 1, NearCompletion, SnapEpsilon \div 2, 2 * SnapEpsilon}

\* Frame times: multiples of 7.5 s (a step of half the path)
DeltaInputs == {(k * 15 * TimeScale) \div 2 : k \in 1 .. MaxDeltaMultiple}

\* Scroll positions of the lifecycle runs: the grid and the two sides of 0.98
LifecycleProgressInputs ==
    {(k * ProgressScale) \div ScrollGrid : k \in -1 .. ScrollGrid + 1}
    \cup {NearCompletion - 1, NearCompletion}

\* 2 + Math.random() * 4 seconds
CooldownInputs == {2 * TimeScale, 4 * TimeScale}

\* How many drops of the rain the model follows
RainSample == 2

\* The drops as setupGidisEnvironment creates them, all at x = 0, z = -10 and
\* height 3 (of 3 + Math.random() * 8)
RainStartInputs ==
    {[i \in 1 .. RainSample |->
         [x |-> 0, y |-> 3 * WorldScale, z |-> -10 * WorldScale]]}

\* The positions drawn for the drops put back on top, all at x = 0, z = -10
\* and height 8 (of 8 + Math.random() * 4)
RainResetInputs ==
    {[i \in 1 .. RainSample |->
         [x |-> 0, y |-> 8 * WorldScale, z |-> -10 * WorldScale]]}

\* Start positions of a drop: the corners of x in -5..5, y in 3..11,
\* z in -25..5
RainStartChoices ==
    {[x |-> -5 * WorldScale, y |-> 3 * WorldScale, z |-> -25 * WorldScale],
     [x |-> 5 * WorldScale, y |-> 11 * WorldScale, z |-> 5 * WorldScale]}

\* Positions of a drop put back on top: the corners of x in -5..5,
\* y in 8..12, z in -25..5
RainResetChoices ==
    {[x |-> -5 * WorldScale, y |-> 8 * WorldScale, z |-> -25 * WorldScale],
     [x |-> 5 * WorldScale, y |-> 12 * WorldScale, z |-> 5 * WorldScale]}

\* Frame times of the rain runs: a twentieth and a third of a second (the
\* fall of a drop from height 3 to the ground), and 7.5 s
RainDeltas == {TimeScale \div 20, TimeScale \div 3, (15 * TimeScale) \div 2}

\* 0.08 + Math.random() * 0.12 seconds
FlashInputs == {TimeScale \div 10}

\* Frame times: a twentieth of a second, and 7.5 s
FrameDeltas == {TimeScale \div 20, (15 * TimeScale) \div 2}

\* Deltas that are no positive number: kind and value
MalformedDeltas ==
    {<<"NaN", 0>>, <<"Infinity", 0>>, <<"-Infinity", 0>>, <<"finite", 0>>,
     <<"finite", -((15 * TimeScale) \div 2)>>}

\* Positions of the object the camera follows
SubjectInputs ==
    {<<0, 0, 0>>, <<0, 0, -30 * WorldScale>>,
     <<WorldScale, (9 * WorldScale) \div 10, -15 * WorldScale>>}

\* Factors handed to setSmoothFactor, in twentieths: below 0, 0, 0.15, 0.5,
\* 0.75, 1 and above 1
FactorInputs == {-5, 0, 3, 10, 15, FactorScale, FactorScale + 5}

\* dt = 1/60 s
ChaseDelta == TimeScale \div 60

\* The updates of 1/60 s that cover the whole path at smoothSpeed: 900
PathTicks == (Abs(endZ - startZ) * TimeScale) \div (smoothSpeed * ChaseDelta)

\* How many updates beyond the end of the path the chase is followed, and how
\* many updates after a stop
ChaseOverrun == 3

\* window.innerWidth / window.innerHeight when the session starts: 16:9
AspectInputs == {<<16, 9>>}

\* Window sizes handed to onResize
ResizeInputs == {<<800, 600>>, <<1080, 1920>>}

\* Offsets handed to setOffset: 0,3,6 and a camera in front of the subject
OffsetInputs ==
    {<<0, 3 * WorldScale, 6 * WorldScale>>,
     <<WorldScale, 2 * WorldScale, -4 * WorldScale>>}

\* Factors of the rig runs: 0.5
RigFactorInputs == {10}

\* Subjects of the rig runs: the origin and the end of the path
RigSubjectInputs == {<<0, 0, 0>>, <<0, 0, -30 * WorldScale>>}

\* Targets held while the character settles: the start, 0.98, and two values
\* close to 0 (within and beyond 0.0001)
TargetInputs == {0, SnapEpsilon \div 2, 2 * SnapEpsilon, NearCompletion}

\* Frame times of the settling runs: 3 s and 7.5 s
SettleDeltas == {3 * TimeScale, (15 * TimeScale) \div 2}

\* clock.getDelta() right after clock.start(): 1/6000 s
StartDeltas == {1}

\* How many callbacks can be requested at a time before start() is held back
MaxScheduled == 3

\* Scroll positions of the frame runs
FrameProgressInputs == {0, ProgressScale}

----------------------------------------------------------------------------
(* The state after new Experience(canvas): applyCurrentScene() for the      *)
(* intro, then the ScrollController's first callback at the top of the page *)

Init ==
    /\ targetProgress = 0
    /\ currentProgress = 0
    /\ lastZ = 0
    /\ currentSpeed = <<0, 1>>
    /\ object3D = "placeholder"
    /\ posZ = 0
    /\ visible = TRUE
    /\ mixer = FALSE
    /\ idleAction = FALSE
    /\ walkAction = FALSE
    /\ currentAction = "none"
    /\ charLoad = "base"
    /\ uiScene = 1
    /\ lastProgress = 0
    /\ overlayActive = FALSE
    /\ panelVisible = TRUE
    /\ visibleCount = 1
    /\ finalActive = FALSE
    /\ currentSceneIndex = 1
    /\ sceneProgress = 0
    /\ world = EmptyWorld
    /\ envLoad = [lifStreet |-> "idle", yilSonu |-> "idle", gidis |-> "idle"]
    /\ lastOp = "applyScene"
    /\ lastArg = 0
    /\ fadeLog = NoFade
    /\ rainX = <<>>
    /\ rainY = <<>>
    /\ rainZ = <<>>
    /\ lightningIntensity = <<0, 1>>
    /\ lightningPosition = <<0, 0, 0>>
    /\ gidisLightningDuration = (15 * TimeScale) \div 100
    /\ cameraPosition = CameraOffset
    /\ cameraLookAt = <<>>
    /\ currentPosition = CameraOffset
    /\ currentLookAt = <<0, 0, 0>>
    /\ smoothFactor = 3
    /\ offset = CameraOffset
    /\ cameraAspect \in AspectInputs
    /\ rendered = <<>>
    /\ progressNaN = FALSE
    /\ document = UiElements \cup FinalChoiceElements \cup {"final-music"}
    /\ constructed = {"UiController", "FinalChoiceController"}
    /\ listeners = UiListeners \cup FinalChoiceListeners
    /\ fields = UiFields \cup FinalChoiceFields
    /\ thrown = "none"
    /\ chaseTicks = 0
    /\ isRunning = FALSE
    /\ scheduled = 0
    /\ firing = 0
    /\ ranInFrame = 0

\* The character's handlers, with every chapter's environment load pending
MotionNext ==
    \/ \E progress \in ProgressInputs : ScrollCallback(progress)
    \/ \E delta \in DeltaInputs : CharacterUpdate(delta)
    \/ NextButtonClick
    \/ CharacterBaseLoaded
    \/ CharacterBaseFailed
    \/ \E withMixer, hasIdle, hasWalk \in BOOLEAN :
           CharacterAnimationsSettled(withMixer, hasIdle, hasWalk)

SpecMotion == Init /\ [][MotionNext]_vars

\* The chapter lifecycle: scroll, the next button and the environment loads
LifecycleNext ==
    \/ \E progress \in LifecycleProgressInputs : ScrollCallback(progress)
    \/ NextButtonClick
    \/ LifTribuneLoaded
    \/ LifSunLoaded
    \/ LifLoadFailed
    \/ YilSonuIslandLoaded
    \/ YilSonuLoadFailed
    \/ \E cooldown \in CooldownInputs, rain \in RainStartInputs :
           GidisSunLoaded(cooldown, rain)
    \/ GidisLoadFailed

SpecLifecycle == Init /\ [][LifecycleNext]_vars

\* The frame loop with everything that can happen between two frames
FrameNext ==
    \/ \E delta \in FrameDeltas, reset \in RainResetInputs,
          duration \in FlashInputs, cooldown \in CooldownInputs :
           Frame(delta, reset, duration, cooldown)
    \/ \E progress \in FrameProgressInputs : ScrollCallback(progress)
    \/ NextButtonClick
    \/ LifTribuneLoaded
    \/ LifSunLoaded
    \/ LifLoadFailed
    \/ YilSonuIslandLoaded
    \/ YilSonuLoadFailed
    \/ \E cooldown \in CooldownInputs, rain \in RainStartInputs :
           GidisSunLoaded(cooldown, rain)
    \/ GidisLoadFailed

SpecFrame == Init /\ [][FrameNext]_vars

\* The frame loop with the character's clips loading and the gidis
\* environment completing
WalkNext ==
    \/ \E delta \in FrameDeltas, reset \in RainResetInputs,
          duration \in FlashInputs, cooldown \in CooldownInputs :
           Frame(delta, reset, duration, cooldown)
    \/ \E progress \in FrameProgressInputs : ScrollCallback(progress)
    \/ NextButtonClick
    \/ CharacterBaseLoaded
    \/ CharacterAnimationsSettled(TRUE, TRUE, TRUE)
    \/ \E cooldown \in CooldownInputs, rain \in RainStartInputs :
           GidisSunLoaded(cooldown, rain)

SpecWalk == Init /\ [][WalkNext]_vars

\* The UiController: its two public methods called with any scene and any
\* progress, its next button, and the scroll callback that drives it
UiNext ==
    \/ \E index \in DOMAIN SCENES : UiSetScene(index)
    \/ \E progress \in ProgressInputs : UiUpdateProgress(progress)
    \/ \E progress \in LifecycleProgressInputs : ScrollCallback(progress)
    \/ NextButtonClick

SpecUi == Init /\ [][UiNext]_vars

\* The CameraController on its own
CameraNext ==
    \/ \E subject \in SubjectInputs : Follow(subject)
    \/ \E factor \in FactorInputs : SetSmoothFactor(factor)

SpecCamera == Init /\ [][CameraNext]_vars

\* The CameraController with every one of its methods
RigNext ==
    \/ \E subject \in RigSubjectInputs : Follow(subject)
    \/ \E factor \in RigFactorInputs : SetSmoothFactor(factor)
    \/ \E v \in OffsetInputs : SetOffset(v)
    \/ \E size \in ResizeInputs : OnResize(size[1], size[2])

SpecRig == Init /\ [][RigNext]_vars

\* CharacterController.update called with any delta
MalformedNext ==
    \/ \E progress \in ProgressInputs : ScrollCallback(progress)
    \/ \E delta \in DeltaInputs : ~progressNaN /\ CharacterUpdate(delta)
    \/ \E dt \in MalformedDeltas : CharacterUpdateMalformed(dt[1], dt[2])
    \/ CharacterBaseLoaded
    \/ CharacterAnimationsSettled(TRUE, TRUE, TRUE)

SpecMalformed == Init /\ [][MalformedNext]_vars

\* Frames and chapter advances of a character at rest while the environment
\* loads complete, fail or stay pending
LoadsNext ==
    \/ \E delta \in FrameDeltas, reset \in RainResetInputs,
          duration \in FlashInputs, cooldown \in CooldownInputs :
           Frame(delta, reset, duration, cooldown)
    \/ NextButtonClick
    \/ LifTribuneLoaded
    \/ LifSunLoaded
    \/ LifLoadFailed
    \/ YilSonuIslandLoaded
    \/ YilSonuLoadFailed
    \/ \E cooldown \in CooldownInputs, rain \in RainStartInputs :
           GidisSunLoaded(cooldown, rain)
    \/ GidisLoadFailed

SpecLoads == Init /\ [][LoadsNext]_vars

\* The rain of gidis: the chapters up to gidis, its environment, and frames
\* with drops starting and landing anywhere in their volume
RainNext ==
    \/ \E delta \in RainDeltas,
          reset \in [1 .. RainSample -> RainResetChoices],
          duration \in FlashInputs, cooldown \in CooldownInputs :
           Frame(delta, reset, duration, cooldown)
    \/ NextButtonClick
    \/ \E cooldown \in CooldownInputs,
          rain \in [1 .. RainSample -> RainStartChoices] :
           GidisSunLoaded(cooldown, rain)

SpecRain == Init /\ [][RainNext]_vars

\* A session on gidis with its environment complete, the environments of the
\* chapters before it never loaded, the character standing at the start of the
\* path and the camera at rest behind it (where its lerp no longer moves it),
\* the last frame rendered
InitStorm ==
    /\ targetProgress = 0
    /\ currentProgress = 0
    /\ lastZ = 0
    /\ currentSpeed = <<0, 1>>
    /\ object3D = "placeholder"
    /\ posZ = 0
    /\ visible = TRUE
    /\ mixer = FALSE
    /\ idleAction = FALSE
    /\ walkAction = FALSE
    /\ currentAction = "none"
    /\ charLoad = "failed"
    /\ uiScene = 4
    /\ lastProgress = 0
    /\ overlayActive = FALSE
    /\ panelVisible = TRUE
    /\ visibleCount = 1
    /\ finalActive = FALSE
    /\ currentSceneIndex = 4
    /\ sceneProgress = 0
    /\ \E cooldown \in CooldownInputs :
           world = GidisCreateRest(
                       [EmptyWorld EXCEPT !.gidisSun = TRUE,
                                          !.objects = {"gidisSun"}],
                       cooldown)
    /\ envLoad = [lifStreet |-> "failed", yilSonu |-> "failed",
                  gidis |-> "done"]
    /\ lastOp = "update"
    /\ lastArg = TimeScale \div 20
    /\ fadeLog = NoFade
    /\ \E rain \in RainStartInputs :
           /\ rainX = [i \in DOMAIN rain |-> rain[i].x]
           /\ rainY = [i \in DOMAIN rain |-> rain[i].y]
           /\ rainZ = [i \in DOMAIN rain |-> rain[i].z]
    /\ lightningIntensity = <<0, 1>>
    /\ lightningPosition = <<-5 * WorldScale, 10 * WorldScale, -15 * WorldScale>>
    /\ gidisLightningDuration = (15 * TimeScale) \div 100
    /\ cameraPosition =
           Vec3Add(SubjectPosition("placeholder", 0), FollowOffset)
    /\ cameraLookAt =
           Vec3Add(SubjectPosition("placeholder", 0), FollowLookAtOffset)
    /\ currentPosition = CameraOffset
    /\ currentLookAt = <<0, 0, 0>>
    /\ smoothFactor = 3
    /\ offset = CameraOffset
    /\ cameraAspect \in AspectInputs
    /\ rendered = [camera |-> cameraPosition, lookAt |-> cameraLookAt,
                   subject |-> SubjectPosition("placeholder", 0),
                   subjectVisible |-> TRUE, objects |-> world.objects]
    /\ progressNaN = FALSE
    /\ document = UiElements \cup FinalChoiceElements \cup {"final-music"}
    /\ constructed = {"UiController", "FinalChoiceController"}
    /\ listeners = UiListeners \cup FinalChoiceListeners
    /\ fields = UiFields \cup FinalChoiceFields
    /\ thrown = "none"
    /\ chaseTicks = 0
    /\ isRunning = TRUE
    /\ scheduled = 1
    /\ firing = 0
    /\ ranInFrame = 1

\* The frames of that session; requestAnimationFrame runs one after the other
\* for as long as the session is running
StormNext ==
    \E delta \in FrameDeltas, reset \in RainResetInputs,
       duration \in FlashInputs, cooldown \in CooldownInputs :
        Frame(delta, reset, duration, cooldown)

SpecStorm == InitStorm /\ [][StormNext]_vars /\ WF_vars(StormNext)

\* The constant-rate chase: the target is set to 1 on the controller at rest,
\* then update(1/60) is called again and again while the model and its clips
\* load; at any moment the target is set to where the character is (stop)
ChaseNext ==
    \/ /\ targetProgress = 0
       /\ currentProgress = 0
       /\ SetTargetProgress(ProgressScale)
    \/ /\ targetProgress = ProgressScale
       /\ currentProgress \in 1 .. ProgressScale - 1
       /\ SetTargetProgress(currentProgress)
    \/ /\ chaseTicks < (IF targetProgress = ProgressScale THEN PathTicks ELSE 0)
                          + ChaseOverrun
       /\ ChaseTick(ChaseDelta)
    \/ CharacterBaseLoaded
    \/ CharacterBaseFailed
    \/ \E withMixer, hasIdle, hasWalk \in BOOLEAN :
           CharacterAnimationsSettled(withMixer, hasIdle, hasWalk)

SpecChase == Init /\ [][ChaseNext]_vars

\* The state of the Experience constructor before new UiController, on a page
\* holding any of the elements the two controllers look for
InitConstruction ==
    /\ targetProgress = 0
    /\ currentProgress = 0
    /\ lastZ = 0
    /\ currentSpeed = <<0, 1>>
    /\ object3D = "placeholder"
    /\ posZ = 0
    /\ visible = TRUE
    /\ mixer = FALSE
    /\ idleAction = FALSE
    /\ walkAction = FALSE
    /\ currentAction = "none"
    /\ charLoad = "base"
    /\ uiScene = 0
    /\ lastProgress = 0
    /\ overlayActive \in BOOLEAN
    /\ panelVisible = TRUE
    /\ visibleCount = 0
    /\ finalActive = FALSE
    /\ currentSceneIndex = 1
    /\ sceneProgress = 0
    /\ world = EmptyWorld
    /\ envLoad = [lifStreet |-> "idle", yilSonu |-> "idle", gidis |-> "idle"]
    /\ lastOp = "new CharacterController"
    /\ lastArg = 0
    /\ fadeLog = NoFade
    /\ rainX = <<>>
    /\ rainY = <<>>
    /\ rainZ = <<>>
    /\ lightningIntensity = <<0, 1>>
    /\ lightningPosition = <<0, 0, 0>>
    /\ gidisLightningDuration = (15 * TimeScale) \div 100
    /\ cameraPosition = CameraOffset
    /\ cameraLookAt = <<>>
    /\ currentPosition = CameraOffset
    /\ currentLookAt = <<0, 0, 0>>
    /\ smoothFactor = 3
    /\ offset = CameraOffset
    /\ cameraAspect \in AspectInputs
    /\ rendered = <<>>
    /\ progressNaN = FALSE
    /\ document \in SUBSET (UiElements \cup FinalChoiceElements
                               \cup {"final-music"})
    /\ constructed = {}
    /\ listeners = {}
    /\ fields = {}
    /\ thrown = "none"
    /\ chaseTicks = 0
    /\ isRunning = FALSE
    /\ scheduled = 0
    /\ firing = 0
    /\ ranInFrame = 0

\* A session on the intro whose camera has come to rest behind the character
\* (where its lerp no longer moves it), started or not
InitLoop ==
    /\ targetProgress = 0
    /\ currentProgress = 0
    /\ lastZ = 0
    /\ currentSpeed = <<0, 1>>
    /\ object3D = "placeholder"
    /\ posZ = 0
    /\ visible = TRUE
    /\ mixer = FALSE
    /\ idleAction = FALSE
    /\ walkAction = FALSE
    /\ currentAction = "none"
    /\ charLoad = "base"
    /\ uiScene = 1
    /\ lastProgress = 0
    /\ overlayActive = FALSE
    /\ panelVisible = TRUE
    /\ visibleCount = 1
    /\ finalActive = FALSE
    /\ currentSceneIndex = 1
    /\ sceneProgress = 0
    /\ world = EmptyWorld
    /\ envLoad = [lifStreet |-> "idle", yilSonu |-> "idle", gidis |-> "idle"]
    /\ lastOp = "update"
    /\ lastArg = TimeScale \div 20
    /\ fadeLog = NoFade
    /\ rainX = <<>>
    /\ rainY = <<>>
    /\ rainZ = <<>>
    /\ lightningIntensity = <<0, 1>>
    /\ lightningPosition = <<0, 0, 0>>
    /\ gidisLightningDuration = (15 * TimeScale) \div 100
    /\ cameraPosition =
           Vec3Add(SubjectPosition("placeholder", 0), FollowOffset)
    /\ cameraLookAt =
           Vec3Add(SubjectPosition("placeholder", 0), FollowLookAtOffset)
    /\ currentPosition = CameraOffset
    /\ currentLookAt = <<0, 0, 0>>
    /\ smoothFactor = 3
    /\ offset = CameraOffset
    /\ cameraAspect \in AspectInputs
    /\ rendered = [camera |-> cameraPosition, lookAt |-> cameraLookAt,
                   subject |-> SubjectPosition("placeholder", 0),
                   subjectVisible |-> TRUE, objects |-> world.objects]
    /\ progressNaN = FALSE
    /\ document = UiElements \cup FinalChoiceElements \cup {"final-music"}
    /\ constructed = {"UiController", "FinalChoiceController"}
    /\ listeners = UiListeners \cup FinalChoiceListeners
    /\ fields = UiFields \cup FinalChoiceFields
    /\ thrown = "none"
    /\ chaseTicks = 0
    /\ isRunning \in BOOLEAN
    /\ scheduled = (IF isRunning THEN 1 ELSE 0)
    /\ firing = 0
    /\ ranInFrame = (IF isRunning THEN 1 ELSE 0)

\* start and stop called between animation frames, the animation frames, and
\* the next button
LoopNext ==
    \/ \E delta \in StartDeltas, reset \in RainResetInputs,
          duration \in FlashInputs, cooldown \in CooldownInputs :
           /\ scheduled < MaxScheduled
           /\ Start(delta, reset, duration, cooldown)
    \/ Stop
    \/ BeginAnimationFrame
    \/ \E delta \in FrameDeltas, reset \in RainResetInputs,
          duration \in FlashInputs, cooldown \in CooldownInputs :
           UpdateCallback(delta, reset, duration, cooldown)
    \/ firing = 0 /\ NextButtonClick

SpecLoop == InitLoop /\ [][LoopNext]_vars

\* The character has come within 0.0001 of its target
Settled == Abs(targetProgress - currentProgress) <= SnapEpsilon

\* update(dt) of the settling runs
SettleTick == \E delta \in SettleDeltas : CharacterUpdate(delta)

\* A target is set when the character has settled on the one before and is
\* held until it has settled on this one, while update is called again and
\* again and the character's model and its clips load, the idle clip found
\* or not
SettleNext ==
    \/ SettleTick
    \/ \E progress \in TargetInputs :
           /\ Settled
           /\ progress # targetProgress
           /\ SetTargetProgress(progress)
    \/ CharacterBaseLoaded
    \/ \E hasIdle \in BOOLEAN : CharacterAnimationsSettled(TRUE, hasIdle, TRUE)

SpecSettle == Init /\ [][SettleNext]_vars /\ WF_vars(SettleTick)

\* The Experience constructor from new UiController on, then the session
ConstructionNext ==
    \/ ConstructUiController
    \/ ConstructFinalChoiceController
    \/ ApplyInitialScene
    \/ \E progress \in FrameProgressInputs :
           Running /\ ScrollCallback(progress)
    \/ Running /\ NextButtonClick
    \/ \E delta \in FrameDeltas : Running /\ CharacterUpdate(delta)

SpecConstruction == InitConstruction /\ [][ConstructionNext]_vars

----------------------------------------------------------------------------
(* Properties *)

ZeroSpeed == <<0, 1>>

\* The value of [0,1] nearest to p
NearestInUnit(p) ==
    IF p < 0 THEN 0 ELSE IF p > ProgressScale THEN ProgressScale ELSE p

\* C1: an update(dt), dt > 0, never increases |targetProgress - currentProgress|
\* and never takes currentProgress to the other side of targetProgress.
C1_MonotoneApproach ==
    [][lastOp' = "update" =>
        /\ Abs(targetProgress - currentProgress')
               <= Abs(targetProgress - currentProgress)
        /\ (currentProgress <= targetProgress =>
               currentProgress' <= targetProgress)
        /\ (currentProgress >= targetProgress =>
               currentProgress' >= targetProgress)]_vars

\* An update whose step was cut to the distance left: it landed on the target
\* at a speed below the full 2 units per second.
C1_Witness ==
    /\ lastOp = "update"
    /\ currentProgress = targetProgress
    /\ currentSpeed # ZeroSpeed
    /\ FracGT(<<smoothSpeed, 1>>, currentSpeed)

\* C2: targetProgress and currentProgress are in [0,1] in every state, and a
\* scroll callback on a scrolling chapter stores the value of [0,1] nearest to
\* the progress it was handed.
C2_ProgressInRange ==
    /\ 0 <= targetProgress /\ targetProgress <= ProgressScale
    /\ 0 <= currentProgress /\ currentProgress <= ProgressScale
    /\ (lastOp = "scroll" => targetProgress = NearestInUnit(lastArg))

\* A scroll callback handed a progress above 1
C2_Witness ==
    /\ lastOp = "scroll"
    /\ lastArg > ProgressScale
    /\ targetProgress = ProgressScale

\* C3: the first update after a chapter activation computes speed 0.
C3_FirstTickSpeedZero ==
    [][lastOp = "applyScene" /\ lastOp' = "update" =>
        currentSpeed' = ZeroSpeed]_vars

\* C4: when applyCurrentScene returns, targetProgress = currentProgress = 0 and
\* the Subject's position and lastZ are the path start.
C4_ActivationResetsMotion ==
    lastOp = "applyScene" =>
        /\ targetProgress = 0
        /\ currentProgress = 0
        /\ posZ = startZ * ZScale
        /\ lastZ = startZ * ZScale

C6_FadeIffStateDiffers ==
    [][lastOp' = "update" /\ currentAction # "none" =>
        LET decided == IF FracGT(currentSpeed', idleThreshold)
                       THEN "walk" ELSE "idle"
        IN  (fadeLog' # NoFade) <=> (decided # currentAction)]_vars

\* C6 amended: an update calls fadeToAction exactly when the clip of the
\* decided state is loaded and is not currentAction; the call resets, fades in
\* and plays that clip, makes it currentAction and fades out the clip that was
\* current, if any.  Every other update makes no fade and no reset call and
\* leaves currentAction unchanged.
C6_FadeIffLoadedClipDiffers ==
    [][lastOp' = "update" =>
        LET decided == IF FracGT(currentSpeed', idleThreshold)
                       THEN "walk" ELSE "idle"
            loaded == IF decided = "walk" THEN walkAction ELSE idleAction
        IN  IF loaded /\ currentAction # decided
            THEN /\ fadeLog' = [out |-> currentAction, in |-> decided]
                 /\ currentAction' = decided
            ELSE /\ fadeLog' = NoFade
                 /\ currentAction' = currentAction]_vars

\* An update that decided Walking while Walking was current: no call made
C6_Witness ==
    /\ lastOp = "update"
    /\ idleAction /\ walkAction
    /\ FracGT(currentSpeed, idleThreshold)
    /\ currentAction = "walk"
    /\ fadeLog = NoFade

\* C7: a next-button click on the last chapter leaves the chapter index,
\* sceneProgress, targetProgress, every environment handle and object, the
\* loads in flight and the UI state unchanged.
C7_NextOnLastSceneIsNoOp ==
    [][currentSceneIndex = Len(SCENES)
       /\ lastOp' \in {"applyScene", "noMoreScenes"} =>
        UNCHANGED <<currentSceneIndex, sceneProgress, targetProgress, world,
                    envLoad, uiVars, finalActive, visible>>]_vars

\* goToNextScene has returned early on the last chapter while objects of an
\* earlier chapter's late load are in the scene (a teardown would remove them)
C7_Witness ==
    /\ lastOp = "noMoreScenes"
    /\ currentSceneIndex = Len(SCENES)
    /\ world.objects # {}

InFlight == {"tribune", "sun", "island"}

\* C8: once no load is in flight (and none has failed), the environment
\* objects in the scene are exactly those of the active chapter, and the dark
\* background is set only on gidis.
C8_SettledEnvironmentIsActiveChapters ==
    (\A c \in DOMAIN envLoad : envLoad[c] \in {"idle", "done"}) =>
        /\ world.objects = ChapterObjects(SceneId(currentSceneIndex))
        /\ (world.background = "dark" <=> SceneId(currentSceneIndex) = "gidis")

\* C9: the chapter index changes only in states where the current chapter has
\* a nextSceneTitle and the progress last reported to the UiController is at
\* least 0.98.
C9_AdvanceOnlyNearCompletion ==
    [][currentSceneIndex' # currentSceneIndex =>
        /\ SCENES[currentSceneIndex].hasNext
        /\ lastProgress >= NearCompletion]_vars

\* C10: when an activation has kicked off its setup and no load of another
\* chapter is in flight, every environment handle is null, the scene holds no
\* environment object and scene.background is null.
C10_TeardownBeforeSetup ==
    (lastOp = "applyScene"
     /\ \A c \in DOMAIN envLoad :
            c # SceneId(currentSceneIndex) => envLoad[c] \notin InFlight) =>
        /\ world = EmptyWorld

\* yilSonu has just been activated after the whole lifStreet environment had
\* been built
C10_Witness ==
    /\ lastOp = "applyScene"
    /\ SceneId(currentSceneIndex) = "yilSonu"
    /\ envLoad.lifStreet = "done"
    /\ envLoad.yilSonu = "island"

\* C11: while the final chapter is active, a scroll callback with any progress
\* leaves sceneProgress, targetProgress and the UiController state unchanged.
C11_ScrollIgnoredOnFinal ==
    [][SceneId(currentSceneIndex) = "final"
       /\ lastOp' \in {"scroll", "scrollIgnored"} =>
        UNCHANGED <<sceneProgress, targetProgress, uiVars>>]_vars

\* The callback has returned early on the final chapter for a progress of 1
C11_Witness ==
    /\ lastOp = "scrollIgnored"
    /\ lastArg = ProgressScale
    /\ SceneId(currentSceneIndex) = "final"
    /\ sceneProgress = 0

\* C12: in every state the object held by the CharacterController is visible
\* if and only if the active chapter is not the final one, also after the
\* character model has replaced the placeholder.
C12_VisibleIffNotFinal ==
    visible <=> SceneId(currentSceneIndex) # "final"

\* C13: a failed load of an environment setup is caught in the setup: nothing
\* is thrown, whatever the setup creates after the failing load is absent from
\* then on, and the load is never started again.
C13_FailedLoadIsContained ==
    [][/\ thrown' = "none"
       /\ (envLoad.lifStreet = "tribune" /\ envLoad'.lifStreet = "failed" =>
              ~world'.lifTribune /\ "lifTribune" \notin world'.objects)
       /\ (envLoad'.lifStreet = "failed" =>
              /\ ~world'.lifSun /\ ~world'.lifSunLight
              /\ ~world'.lifSunPointLight
              /\ world'.objects \cap (LifObjects \ {"lifTribune"}) = {})
       /\ (envLoad'.yilSonu = "failed" =>
              ~world'.yilSonuIsland /\ world'.objects \cap YilSonuObjects = {})
       /\ (envLoad'.gidis = "failed" =>
              /\ world'.objects \cap GidisObjects = {}
              /\ ~world'.gidisRainPoints /\ ~world'.gidisLightningLight
              /\ world'.background = "null")
       /\ \A c \in DOMAIN envLoad :
              envLoad[c] = "failed" => envLoad'[c] = "failed"]_vars

\* A frame has been rendered on gidis after its sun failed to load: the scene
\* it drew holds no environment object
C13_Witness ==
    /\ lastOp = "update"
    /\ SceneId(currentSceneIndex) = "gidis"
    /\ envLoad.gidis = "failed"
    /\ rendered # <<>>
    /\ rendered.objects = {}

\* C14: an update with a delta that is NaN or infinite leaves currentProgress
\* and the position numbers, currentProgress in [0,1].
C14_NonFiniteDeltaKeepsNumbers ==
    [][~progressNaN
       /\ lastOp' \in {"update(NaN)", "update(Infinity)", "update(-Infinity)"}
       => /\ ~progressNaN'
          /\ 0 <= currentProgress' /\ currentProgress' <= ProgressScale]_vars

\* C15: an update with a delta <= 0 does not move currentProgress away from
\* targetProgress and computes a speed that is a finite number >= 0.
C15_NonPositiveDeltaIsHarmless ==
    [][~progressNaN /\ lastOp' \in {"update(0)", "update(negative)"}
       => /\ Abs(targetProgress - currentProgress')
                 <= Abs(targetProgress - currentProgress)
          /\ currentSpeed'[2] # 0
          /\ currentSpeed'[1] >= 0]_vars

\* C16: with smoothFactor f in (0,1), a call of follow multiplies the distance
\* between the smoothed position and subject + offset by exactly 1 - f on
\* every axis (so it shrinks while it is not 0), and the camera's position is
\* the smoothed position after the call.
C16_FollowShrinksDistance ==
    [][lastOp' = "follow" /\ 0 < smoothFactor /\ smoothFactor < FactorScale =>
        LET desired == Vec3Add(lastArg', CameraOffset)
        IN  /\ \A i \in 1 .. 3 :
                   /\ (desired[i] - currentPosition'[i]) * FactorScale
                          = (desired[i] - currentPosition[i])
                                * (FactorScale - smoothFactor)
                   /\ (desired[i] # currentPosition[i] =>
                           Abs(desired[i] - currentPosition'[i])
                               < Abs(desired[i] - currentPosition[i]))
            /\ cameraPosition' = currentPosition']_vars

\* Two calls in a row for the same subject with the factor 0.15, the camera
\* still on its way
C16_Witness ==
    /\ lastOp = "follow"
    /\ smoothFactor = 3
    /\ lastArg = <<0, 0, -30 * WorldScale>>
    /\ cameraPosition = currentPosition
    /\ currentPosition[3] =
           4 * WorldScale - ((30 * WorldScale) \div 400) * (400 - 17 * 17)

\* C17: on every frame the camera's position is lerp(previous position,
\* subject + offset, factor), and the point it looks at is the previous
\* look-at point lerped with the same factor towards subject + look-at offset.
C17_FrameFollowsContract ==
    [][lastOp' = "update" =>
        LET subject == SubjectPosition(object3D', posZ')
        IN  /\ cameraPosition' =
                   Vec3Lerp(cameraPosition, Vec3Add(subject, FollowOffset),
                            FollowLerp)
            /\ (cameraLookAt # <<>> =>
                   cameraLookAt' =
                       Vec3Lerp(cameraLookAt,
                                Vec3Add(subject, FollowLookAtOffset),
                                FollowLerp))]_vars

\* C18: in a frame the locomotion decision uses the speed of that frame's
\* position update, a flash started by the effects is placed from the camera
\* position the frame began with, the camera follow reads the position the
\* character update of that frame wrote, and the render draws the result.
C18_FrameOrder ==
    [][lastOp' = "update" =>
        LET subject == SubjectPosition(object3D', posZ')
            flash == /\ world.gidisLightningTimer <= 0
                     /\ world'.gidisLightningTimer > 0
        IN  /\ posZ' = ZOfProgress(currentProgress')
            /\ lastArg' > 0 => currentSpeed' = SpeedOf(posZ', lastZ, lastArg')
            /\ fadeLog' = FadeCalls(FadeTarget(currentSpeed'))
            /\ (flash => lightningPosition' =
                   Vec3Add(cameraPosition,
                           <<0, 6 * WorldScale, -10 * WorldScale>>))
            /\ cameraPosition' =
                   Vec3Lerp(cameraPosition, Vec3Add(subject, FollowOffset),
                            FollowLerp)
            /\ cameraLookAt' = Vec3Add(subject, FollowLookAtOffset)
            /\ rendered' = [camera |-> cameraPosition',
                            lookAt |-> cameraLookAt', subject |-> subject,
                            subjectVisible |-> visible',
                            objects |-> world'.objects]]_vars

\* A frame on gidis that moved the character, faded to the walk clip, started
\* a flash and moved the camera
C18_Witness ==
    /\ lastOp = "update"
    /\ SceneId(currentSceneIndex) = "gidis"
    /\ posZ < 0
    /\ fadeLog.in = "walk"
    /\ world.gidisLightningTimer > 0
    /\ rendered.subject[3] = posZ * (WorldScale \div ZScale)
    /\ cameraPosition[3] < 4 * WorldScale

\* C19: a frame on a chapter other than gidis leaves the rain, the lightning
\* timer and cooldown and the lightning light's intensity and position
\* unchanged.
C19_EffectsOnlyOnGidis ==
    [][lastOp' = "update" /\ SceneId(currentSceneIndex) # "gidis" =>
        /\ UNCHANGED <<rainX, rainY, rainZ, lightningIntensity,
                       lightningPosition>>
        /\ world'.gidisLightningTimer = world.gidisLightningTimer
        /\ world'.gidisLightningCooldown = world.gidisLightningCooldown]_vars

\* A frame on the final chapter while the rain and the lightning light of a
\* late gidis load are in the scene
C19_Witness ==
    /\ lastOp = "update"
    /\ SceneId(currentSceneIndex) = "final"
    /\ world.gidisRainPoints /\ world.gidisLightningLight
    /\ "gidisRainPoints" \in rendered.objects

C21_ConstantRateChase ==
    (targetProgress = ProgressScale /\ chaseTicks <= PathTicks) =>
        /\ currentProgress * PathTicks = chaseTicks * ProgressScale
        /\ (chaseTicks = 60 => currentProgress * 15 = ProgressScale)
        /\ (chaseTicks = 60 /\ lastOp = "update" => posZ = -2 * ZScale)
        /\ (chaseTicks >= 1 =>
               currentSpeed = <<2, 1>> /\ currentAction = "walk")

\* C21 amended: the same numbers, and the state Walking on the updates run
\* with the walk clip loaded.
C21_ConstantRateChaseOnceLoaded ==
    (targetProgress = ProgressScale /\ chaseTicks <= PathTicks) =>
        /\ currentProgress * PathTicks = chaseTicks * ProgressScale
        /\ (chaseTicks = 60 => currentProgress * 15 = ProgressScale)
        /\ (chaseTicks = 60 /\ lastOp = "update" => posZ = -2 * ZScale)
        /\ (chaseTicks >= 1 => currentSpeed = <<2, 1>>)
        /\ (lastOp = "update" /\ walkAction => currentAction = "walk")

\* The 60th update of the chase, with the walk clip loaded before the first
C21_Witness ==
    /\ targetProgress = ProgressScale
    /\ chaseTicks = 60
    /\ lastOp = "update"
    /\ currentAction = "walk"
    /\ fadeLog = NoFade
    /\ posZ = -2 * ZScale

\* C22 as claimed: an update that computes a speed of at most idleThreshold
\* while the state is Walking ends with the state Idle, and the first update
\* after the target was set to currentProgress computes such a speed.
C22_IdleWithinOneTick ==
    [][lastOp' = "update" =>
        /\ (targetProgress = currentProgress => ~IsMoving(currentSpeed'))
        /\ (currentAction = "walk" /\ ~IsMoving(currentSpeed') =>
               currentAction' = "idle")]_vars

\* C22 amended: the same, for an update run with the idle clip loaded.
C22_IdleWithinOneTickOnceLoaded ==
    [][lastOp' = "update" =>
        /\ (targetProgress = currentProgress => currentSpeed' = <<0, 1>>)
        /\ (currentAction = "walk" /\ ~IsMoving(currentSpeed') /\ idleAction =>
               currentAction' = "idle" /\ fadeLog'.out = "walk")
        /\ (currentAction = "walk" /\ ~idleAction =>
               currentAction' = "walk")]_vars

\* The first update after a stop in the middle of the path, which fades from
\* the walk clip to the idle clip
C22_Witness ==
    /\ lastOp = "update"
    /\ chaseTicks = 1
    /\ targetProgress = currentProgress
    /\ currentProgress \in 1 .. ProgressScale - 1
    /\ currentSpeed = <<0, 1>>
    /\ fadeLog = [out |-> "walk", in |-> "idle"]

\* C23: the progress the scroll callback hands to UiController.updateProgress
\* equals CharacterController.currentProgress at that moment.
C23_UiGetsSmoothedProgress ==
    lastOp = "scroll" => lastProgress = currentProgress

\* C24: in every state, the teardown of each chapter run twice gives what one
\* run gives; one run removes from the scene exactly the objects of that
\* chapter that are there and nothing else; and an activation leaves the world
\* that all the teardowns give, which running them all again does not change.
C24_TeardownIdempotent ==
    [][/\ \A i \in DOMAIN SCENES :
              LET once == CleanupSceneEnvironment(i, world)
              IN  /\ CleanupSceneEnvironment(i, once) = once
                  /\ once.objects = world.objects \ ChapterObjects(SceneId(i))
       /\ (lastOp' = "applyScene" =>
              /\ world' = CleanupFrom(1, world)
              /\ CleanupFrom(1, world') = world')]_vars

\* An activation that tore down a lifStreet environment of which only the
\* stadium had been created, the sun still loading
C24_Witness ==
    /\ lastOp = "applyScene"
    /\ envLoad.lifStreet = "sun"
    /\ SceneId(currentSceneIndex) # "lifStreet"
    /\ ~world.lifTribune
    /\ "lifTribune" \notin world.objects

\* C25: in every state a frame of any delta can be taken (as long as its
\* camera lerp is whole in the model's units) and the next button can be
\* clicked, whatever the environment loads are doing; the frame leaves the
\* rain alone while the rain geometry or points are null, leaves the lightning
\* and its timers alone while the lightning light is null, and ends in a
\* render.
C25_FrameNeverBlocked ==
    /\ \A delta \in FrameDeltas, reset \in RainResetInputs,
          duration \in FlashInputs, cooldown \in CooldownInputs :
           Vec3LerpIsWhole(cameraPosition,
                           Vec3Add(SubjectPosition(object3D,
                                       ZOfProgress(NextProgress(delta))),
                                   FollowOffset))
           => ENABLED
                 /\ Frame(delta, reset, duration, cooldown)
                 /\ (~(world.gidisRainGeometry /\ world.gidisRainPoints) =>
                        rainY' = rainY)
                 /\ (~world.gidisLightningLight =>
                        /\ UNCHANGED <<lightningIntensity, lightningPosition,
                                       gidisLightningDuration>>
                        /\ world' = world)
                 /\ rendered'.objects = world.objects
                 /\ thrown' = "none"
    /\ ENABLED NextButtonClick

\* A frame taken on gidis while its sun is still loading and nothing of the
\* environment exists
C25_Witness ==
    /\ lastOp = "update"
    /\ SceneId(currentSceneIndex) = "gidis"
    /\ envLoad.gidis = "sun"
    /\ ~world.gidisRainPoints /\ ~world.gidisLightningLight
    /\ rendered # <<>>
    /\ rendered.objects = {}

\* C26: a frame on gidis with the rain in place keeps the number of drops,
\* lowers every drop by 9 * dt, and puts exactly the drops that are then below
\* 0 back to a height in 8..12, x in -5..5 and z in -25..5, each drop by
\* its own height alone; after the frame no drop is below 0.
C26_RainFallsAndRespawns ==
    [][(/\ lastOp' = "update"
        /\ SceneId(currentSceneIndex) = "gidis"
        /\ world.gidisRainGeometry /\ world.gidisRainPoints) =>
        /\ DOMAIN rainY' = DOMAIN rainY
        /\ DOMAIN rainX' = DOMAIN rainY /\ DOMAIN rainZ' = DOMAIN rainY
        /\ \A i \in DOMAIN rainY :
               LET fallen == rainY[i] - 9 * lastArg' * (WorldScale \div TimeScale)
               IN  /\ IF fallen < 0
                      THEN /\ rainY'[i] >= 8 * WorldScale
                           /\ rainY'[i] <= 12 * WorldScale
                           /\ rainX'[i] >= -5 * WorldScale
                           /\ rainX'[i] <= 5 * WorldScale
                           /\ rainZ'[i] >= -25 * WorldScale
                           /\ rainZ'[i] <= 5 * WorldScale
                      ELSE /\ rainY'[i] = fallen
                           /\ rainX'[i] = rainX[i]
                           /\ rainZ'[i] = rainZ[i]
                   /\ rainY'[i] >= 0]_vars

\* A frame of a twentieth of a second in which the first drop, lying on the
\* ground at height 0, was put back on top and the second fell from 8 to 7.55
C26_Witness ==
    /\ lastOp = "update"
    /\ lastArg = TimeScale \div 20
    /\ SceneId(currentSceneIndex) = "gidis"
    /\ world.gidisRainPoints
    /\ DOMAIN rainY = 1 .. RainSample
    /\ rainY[1] = 12 * WorldScale
    /\ rainY[2] = (151 * WorldScale) \div 20

\* C27: in a frame on gidis with the lightning light in place, a flash in
\* progress (timer > 0) has its timer lowered by dt and leaves the cooldown,
\* the duration and the light's position alone; otherwise the cooldown is
\* lowered by dt and, if it is then <= 0, a flash starts with timer = duration
\* in 0.08..0.2 s and the cooldown set to 2..6 s.  With frames going on, a
\* flash is always followed by waiting and waiting by a flash.
C27_LightningAlternates ==
    /\ [][(/\ lastOp' = "update"
            /\ SceneId(currentSceneIndex) = "gidis"
            /\ world.gidisLightningLight) =>
            LET dt == lastArg'
                timer == world.gidisLightningTimer
                wait == world.gidisLightningCooldown
            IN  IF timer > 0
                THEN /\ world'.gidisLightningTimer = timer - dt
                     /\ world'.gidisLightningCooldown = wait
                     /\ UNCHANGED <<gidisLightningDuration, lightningPosition>>
                ELSE IF wait - dt <= 0
                THEN /\ world'.gidisLightningTimer = gidisLightningDuration'
                     /\ gidisLightningDuration' * 100 >= 8 * TimeScale
                     /\ gidisLightningDuration' * 10 <= 2 * TimeScale
                     /\ world'.gidisLightningCooldown >= 2 * TimeScale
                     /\ world'.gidisLightningCooldown <= 6 * TimeScale
                ELSE /\ world'.gidisLightningCooldown = wait - dt
                     /\ world'.gidisLightningTimer = timer
                     /\ UNCHANGED <<gidisLightningDuration, lightningPosition,
                                    lightningIntensity>>]_vars
    /\ []<>(world.gidisLightningTimer > 0)
    /\ []<>(world.gidisLightningTimer <= 0)

\* A frame that ended a flash: the timer has run out, the cooldown drawn at
\* the start of the flash is untouched
C27_Witness ==
    /\ lastOp = "update"
    /\ world.gidisLightningLight
    /\ world.gidisLightningTimer <= 0
    /\ world.gidisLightningTimer + lastArg > 0
    /\ world.gidisLightningCooldown \in CooldownInputs
    /\ lightningPosition # <<-5 * WorldScale, 10 * WorldScale, -15 * WorldScale>>

\* C28: while the lightning light exists, its intensity is
\* 6.5 * (timer / duration)^2 whenever the timer is > 0 and 0 whenever the
\* timer is <= 0.
C28_IntensityFollowsTimer ==
    world.gidisLightningLight =>
        IF world.gidisLightningTimer > 0
        THEN lightningIntensity[1] * 10 * gidisLightningDuration
                 * gidisLightningDuration
             = 65 * world.gidisLightningTimer * world.gidisLightningTimer
                 * lightningIntensity[2]
        ELSE lightningIntensity[1] = 0

\* C29: onResize sets the aspect to width / height and leaves the smoothed
\* position, the smoothed look-at, the offset, the factor and the camera's
\* position alone; and the smoothed position and look-at are changed by no
\* method but follow.
C29_ResizeIsPure ==
    [][/\ (lastOp' = "onResize" =>
              /\ cameraAspect'[1] * lastArg'[2] = cameraAspect'[2] * lastArg'[1]
              /\ UNCHANGED <<currentPosition, currentLookAt, offset,
                             smoothFactor, cameraPosition, cameraLookAt>>)
       /\ (lastOp' # "follow" => UNCHANGED <<currentPosition, currentLookAt>>)
       /\ (lastOp' = "setOffset" => offset' = lastArg')]_vars

\* A resize to 800 x 600 after the offset was changed and the camera has
\* followed the subject away from its start
C29_Witness ==
    /\ lastOp = "onResize"
    /\ cameraAspect = <<4, 3>>
    /\ offset # CameraOffset
    /\ currentPosition # CameraOffset
    /\ currentLookAt # <<0, 0, 0>>

C31_IndexOnlyAdvances ==
    /\ [](currentSceneIndex \in 1 .. Len(SCENES))
    /\ [][/\ currentSceneIndex' \in {currentSceneIndex, currentSceneIndex + 1}
          /\ (lastOp' = "applyScene" =>
                 currentSceneIndex' = currentSceneIndex + 1)
          /\ (currentSceneIndex' # currentSceneIndex =>
                 lastOp' = "applyScene")]_vars

\* The last chapter has been reached, frames have been drawn, and a click of
\* the next button on it has been refused
C31_Witness ==
    /\ currentSceneIndex = Len(SCENES)
    /\ lastOp = "noMoreScenes"
    /\ rendered # <<>>
    /\ \E id \in DOMAIN envLoad : envLoad[id] # "idle"

\* C32: whatever the order of start(), stop() and the frame callbacks, at
\* most one callback is requested or waiting to run at any time, and the
\* body of update runs at most once in an animation frame.
C32_OneLoopAtATime ==
    /\ scheduled + firing <= 1
    /\ ranInFrame <= 1

\* C33: after updateProgress(p) the next-scene overlay is active exactly if
\* p clamped to [0, 1] is at least 0.98 and the scene names a next scene;
\* after setScene and after a click of the next button it is hidden; on the
\* final scene it is hidden whatever the progress.
C33_OverlayFollowsProgress ==
    /\ lastOp \in {"updateProgress", "scroll"} =>
           (overlayActive <=>
               /\ Clamp(lastArg, 0, ProgressScale) >= NearCompletion
               /\ SCENES[uiScene].hasNext)
    /\ lastOp \in {"setScene", "applyScene", "noMoreScenes"} => ~overlayActive
    /\ SceneId(uiScene) = "final" => ~overlayActive

\* updateProgress(1.5) on a scene that names a next one has shown the overlay
C33_Witness ==
    /\ lastOp = "updateProgress"
    /\ lastArg > ProgressScale
    /\ lastProgress = ProgressScale
    /\ overlayActive

\* C34: with the target held and update called again and again, the
\* character comes within 0.0001 of the target; every update from there on
\* leaves currentProgress as it is, computes the speed 0 and leaves the
\* character in the idle clip.
C34_SettlesIdle ==
    /\ (~Settled) ~> Settled
    /\ [][lastOp' = "update" /\ Settled =>
            /\ currentProgress' = currentProgress
            /\ currentSpeed' = ZeroSpeed
            /\ currentAction' = "idle"]_vars

\* C34 amended: the same, the character being left in the idle clip if that
\* clip has loaded and in the clip it was in if not.
C34_SettlesIdleOnceLoaded ==
    /\ (~Settled) ~> Settled
    /\ [][lastOp' = "update" /\ Settled =>
            /\ currentProgress' = currentProgress
            /\ currentSpeed' = ZeroSpeed
            /\ currentAction' = (IF idleAction THEN "idle"
                                 ELSE currentAction)]_vars

\* An update of the character at rest at 0.98, where the last step of its
\* walk was cut to the distance left, has faded from the walk to the idle
\* clip
C34_Witness ==
    /\ lastOp = "update"
    /\ targetProgress = NearCompletion
    /\ currentProgress = NearCompletion
    /\ currentSpeed = ZeroSpeed
    /\ fadeLog = [out |-> "walk", in |-> "idle"]

C36_ThreeProgressesAgree ==
    /\ [](sceneProgress = targetProgress /\ targetProgress = lastProgress)
    /\ [][/\ (lastOp' = "scroll" =>
                 /\ sceneProgress' = Clamp(lastArg', 0, ProgressScale)
                 /\ targetProgress' = sceneProgress'
                 /\ lastProgress' = sceneProgress')
          /\ (lastOp' = "applyScene" =>
                 /\ sceneProgress' = 0
                 /\ targetProgress' = 0
                 /\ lastProgress' = 0)]_vars

\* A scroll callback with the progress 1.5 on the third chapter, the character
\* still on its way: the three are 1
C36_Witness ==
    /\ lastOp = "scroll"
    /\ lastArg > ProgressScale
    /\ currentSceneIndex = 3
    /\ sceneProgress = ProgressScale
    /\ targetProgress = ProgressScale
    /\ lastProgress = ProgressScale
    /\ currentProgress # targetProgress

C38_FinalOverlayIffFinal ==
    /\ [][lastOp' = "applyScene" =>
            /\ (finalActive' <=> SceneId(currentSceneIndex') = "final")
            /\ (panelVisible' <=> SceneId(currentSceneIndex') # "final")]_vars
    /\ [][finalActive => finalActive' /\ ~panelVisible']_vars
    /\ [](finalActive <=> SceneId(currentSceneIndex) = "final")

\* The final chapter was activated and the next button was clicked again: the
\* final-choice overlay is still shown and the text panel still hidden
C38_Witness ==
    /\ lastOp = "noMoreScenes"
    /\ SceneId(currentSceneIndex) = "final"
    /\ finalActive
    /\ ~panelVisible
    /\ uiScene = Len(SCENES)

====
